---------------------------- MODULE Spec2Model ----------------------------
(***************************************************************************)
(* Student grade management system (src/grade_management.py).              *)
(*                                                                         *)
(* The specifications of this module share its variables:                  *)
(*   SpecCalc  the data model and the analytics engine (pure functions of  *)
(*             one academic record),                                       *)
(*   Spec      the record store: DatabaseManager.save_record and the       *)
(*             lookups, on one SQLite connection,                          *)
(*   SpecApp   the application controller GradeManagementSystem: creating, *)
(*             saving, viewing and exporting records,                      *)
(* and further ones, introduced where they are used, for construction,     *)
(* grade entry, saved records, prediction and the whole of run().          *)
(*                                                                         *)
(* Numbers.  A score and a GPA are Python floats with at most two          *)
(* decimals of interest; the model holds them as integers in hundredths    *)
(* of a point (4.0 is 400, 8.33 is 833).  The scores the model draws are   *)
(* multiples of 0.5, which binary floating point represents exactly, so    *)
(* sums and products of scores and weights are exact in the program and    *)
(* round(x, 2) rounds the exact quotient, to the even neighbour on a tie.  *)
(* Percentages (excellence_rate, pass_rate, consistency_score) are held    *)
(* in hundredths of a percent, rounded down.                               *)
(***************************************************************************)
EXTENDS Integers, Sequences, FiniteSets, TLC

VARIABLES
    record,          \* SpecCalc: the academic record under analysis
    calc_pc,         \* SpecCalc: "input", then the name of the function applied
    out,             \* SpecCalc: what the applied function returned
    conn,            \* the tables as the open connection sees them (pending writes included)
    disk,            \* the tables as committed to the database file
    op,              \* store: the last operation and its argument
    result,          \* store: what the last operation returned
    saved,           \* store history: record_id -> the record of the last successful save
    attempts,        \* store history: number of save_record calls so far
    current_record,  \* app: GradeManagementSystem.current_record (<<>> is None)
    app_pc,          \* app: where the controller waits for the operator
    save_outcome,    \* app: outcome of the save of current_record
    exported,        \* app: the record handed to ReportExporter by the last export
    args,            \* construction: the score and weight given to SubjectInfo(...)
    made,            \* construction: what SubjectInfo(...) produced; input_grades: the line last typed
    draft,           \* input_grades: the list "subjects" entered so far
    draft_names,     \* input_grades: the set "subject_names"
    num_subjects,    \* input_grades: the number of entries asked for
    subject_name,    \* input_grades: the name accepted at the current iteration
    draft_pc         \* input_grades: the prompt it waits at, or how it ended

calc_vars  == <<record, calc_pc, out>>
store_vars == <<conn, disk, op, result, saved, attempts>>
app_vars   == <<current_record, app_pc, save_outcome, exported>>
draft_vars == <<args, made, draft, draft_names, num_subjects, subject_name, draft_pc>>
vars       == <<record, calc_pc, out, conn, disk, op, result, saved, attempts,
                current_record, app_pc, save_outcome, exported,
                args, made, draft, draft_names, num_subjects, subject_name, draft_pc>>

---------------------------------------------------------------------------
(* Bounds of the model *)

\* longest subject list the analytics specification draws
MaxSubjects == 3

\* most save_record calls in one behaviour of the store specification
MaxSaves == 2

\* Python's None
None == "None"

---------------------------------------------------------------------------
(* DATA MODEL *)

\* class GradeLevel(Enum): members in definition order, each with its label
\* (diacritics dropped) and min_score in hundredths.
GradeLevel ==
    << [name |-> "OUTSTANDING", label |-> "Xuat sac",   min_score |-> 900],
       [name |-> "EXCELLENT",   label |-> "Gioi",       min_score |-> 800],
       [name |-> "GOOD",        label |-> "Kha",        min_score |-> 650],
       [name |-> "AVERAGE",     label |-> "Trung binh", min_score |-> 500],
       [name |-> "WEAK",        label |-> "Yeu",        min_score |-> 350],
       [name |-> "POOR",        label |-> "Kem",        min_score |-> 0] >>

\* @dataclass SubjectInfo
SubjectInfo(name, score, weight, category, notes) ==
    [name |-> name, score |-> score, weight |-> weight,
     category |-> category, notes |-> notes]

\* @dataclass StudentInfo
StudentInfo(student_id, full_name, class_name, academic_year, date_of_birth, gender, email, phone) ==
    [student_id |-> student_id, full_name |-> full_name, class_name |-> class_name,
     academic_year |-> academic_year, date_of_birth |-> date_of_birth,
     gender |-> gender, email |-> email, phone |-> phone]

\* @dataclass AcademicRecord
AcademicRecord(student, semester, exam_type, subjects, created_at, record_id) ==
    [student |-> student, semester |-> semester, exam_type |-> exam_type,
     subjects |-> subjects, created_at |-> created_at, record_id |-> record_id]

\* float('nan') and float('inf') among the scores in hundredths
NaN == -1000000
Inf == 1000000

\* a < b and a <= b on floats: every comparison with nan is false
py_lt(a, b) == a # NaN /\ b # NaN /\ a < b
py_le(a, b) == a # NaN /\ b # NaN /\ a <= b

\* SubjectInfo.__post_init__ with a half-open test "0 <= score < 10"
subject_valid_below_ten(s) ==
    /\ py_le(0, s.score) /\ py_lt(s.score, 1000)
    /\ s.weight \in {1, 2, 3}

\* SubjectInfo.__post_init__ raises nothing: "0 <= self.score <= 10" holds
\* and the weight is in [1, 2, 3]
subject_valid(s) ==
    /\ py_le(0, s.score) /\ py_le(s.score, 1000)
    /\ s.weight \in {1, 2, 3}

\* SubjectInfo.weighted_score
weighted_score(s) == s.score * s.weight

\* "for level in GradeLevel: if value >= level.min_score: return level",
\* from position i on; "return GradeLevel.POOR" after the loop.
RECURSIVE first_level(_, _)
first_level(value, i) ==
    IF i > Len(GradeLevel) THEN GradeLevel[Len(GradeLevel)]
    ELSE IF value >= GradeLevel[i].min_score THEN GradeLevel[i]
    ELSE first_level(value, i + 1)

\* SubjectInfo.grade_level
subject_grade_level(s) == first_level(s.score, 1)

\* sum(s.score for s in subjects)
RECURSIVE sum_scores(_)
sum_scores(subjects) ==
    IF subjects = <<>> THEN 0
    ELSE Head(subjects).score + sum_scores(Tail(subjects))

\* sum(s.weighted_score for s in subjects)
RECURSIVE sum_weighted(_)
sum_weighted(subjects) ==
    IF subjects = <<>> THEN 0
    ELSE weighted_score(Head(subjects)) + sum_weighted(Tail(subjects))

\* sum(s.weight for s in subjects)
RECURSIVE sum_weights(_)
sum_weights(subjects) ==
    IF subjects = <<>> THEN 0
    ELSE Head(subjects).weight + sum_weights(Tail(subjects))

\* int(num / den) in place of round(num / den, 2): the quotient cut off, not rounded
round_truncating(num, den) == num \div den

\* round(num / den, 2) on hundredths: the integer nearest num / den, the even
\* one when num / den lies exactly between two (num >= 0, den > 0).
round_half_even(num, den) ==
    LET q == num \div den
        r == num % den
    IN  IF 2 * r < den THEN q
        ELSE IF 2 * r > den THEN q + 1
        ELSE IF q % 2 = 0 THEN q ELSE q + 1

\* AcademicRecord.simple_gpa
simple_gpa(rec) ==
    IF rec.subjects = <<>> THEN 0
    ELSE round_half_even(sum_scores(rec.subjects), Len(rec.subjects))

\* AcademicRecord.weighted_gpa
weighted_gpa(rec) ==
    IF rec.subjects = <<>> THEN 0
    ELSE round_half_even(sum_weighted(rec.subjects), sum_weights(rec.subjects))

\* the band of simple_gpa in place of weighted_gpa
record_grade_level_of_simple_gpa(rec) == first_level(simple_gpa(rec), 1)

\* AcademicRecord.grade_level
record_grade_level(rec) == first_level(weighted_gpa(rec), 1)

---------------------------------------------------------------------------
(* ANALYTICS ENGINE *)

\* dict.get(key, default)
dict_get(d, key, default) == IF key \in DOMAIN d THEN d[key] ELSE default

\* dict.get(key): <<value>>, or <<>> for Python's None when the key is missing
dict_get_opt(d, key) == IF key \in DOMAIN d THEN <<d[key]>> ELSE <<>>

\* min(scores) / max(scores)
min_score(subjects) ==
    CHOOSE v \in {subjects[i].score : i \in DOMAIN subjects} :
        \A i \in DOMAIN subjects : v <= subjects[i].score
max_score(subjects) ==
    CHOOSE v \in {subjects[i].score : i \in DOMAIN subjects} :
        \A i \in DOMAIN subjects : v >= subjects[i].score

\* min(subjects, key=lambda x: x.score): Python keeps the first item whose key
\* is strictly smaller than every earlier one, so the first minimal entry.
RECURSIVE min_by_score(_, _)
min_by_score(best, rest) ==
    IF rest = <<>> THEN best
    ELSE IF Head(rest).score < best.score THEN min_by_score(Head(rest), Tail(rest))
    ELSE min_by_score(best, Tail(rest))

\* max(...) keeping the last maximal entry
RECURSIVE max_by_score_last(_, _)
max_by_score_last(best, rest) ==
    IF rest = <<>> THEN best
    ELSE IF Head(rest).score >= best.score THEN max_by_score_last(Head(rest), Tail(rest))
    ELSE max_by_score_last(best, Tail(rest))

\* max(subjects, key=lambda x: x.score): the first maximal entry
RECURSIVE max_by_score(_, _)
max_by_score(best, rest) ==
    IF rest = <<>> THEN best
    ELSE IF Head(rest).score > best.score THEN max_by_score(Head(rest), Tail(rest))
    ELSE max_by_score(best, Tail(rest))

\* sum(1 for s in scores if lo <= s < hi)
count_between(subjects, lo, hi) ==
    Cardinality({i \in DOMAIN subjects : lo <= subjects[i].score /\ subjects[i].score < hi})

\* sum of the squared scores (for the sample variance)
RECURSIVE sum_squares(_)
sum_squares(subjects) ==
    IF subjects = <<>> THEN 0
    ELSE Head(subjects).score * Head(subjects).score + sum_squares(Tail(subjects))

\* <<quotient, remainder>> of (q + r / den) * 10^k by den, one decimal digit at a
\* time (keeps every intermediate value small)
RECURSIVE long_div(_, _, _, _)
long_div(q, r, den, k) ==
    IF k = 0 THEN <<q, r>>
    ELSE long_div(q * 10 + (r * 10) \div den, (r * 10) % den, den, k - 1)

\* the least c in lo..hi with c * c >= n (hi * hi >= n is given)
RECURSIVE ceil_sqrt(_, _, _)
ceil_sqrt(n, lo, hi) ==
    IF lo >= hi THEN hi
    ELSE LET mid == (lo + hi) \div 2
         IN  IF mid * mid >= n THEN ceil_sqrt(n, lo, mid)
             ELSE ceil_sqrt(n, mid + 1, hi)

\* statistics.stdev(scores) / statistics.mean(scores) * 100, in hundredths of a
\* percent, rounded up.  With n scores of sum S and sum of squares Q the sample
\* variance is (n*Q - S*S) / (n*(n-1)) and the mean S / n, so the squared ratio
\* is n*(n*Q - S*S) / ((n-1)*S*S).
spread_percent(subjects) ==
    LET n   == Len(subjects)
        S   == sum_scores(subjects)
        Q   == sum_squares(subjects)
        num == n * (n * Q - S * S)
        den == (n - 1) * S * S
        d   == long_div(num \div den, num % den, den, 8)
        sq  == IF d[2] > 0 THEN d[1] + 1 ELSE d[1]
    IN  ceil_sqrt(sq, 0, 10000 * n)

\* 'variance': statistics.variance(scores) if len(scores) > 1 else 0, as the
\* exact fraction (n*Q - S*S) / (n*(n-1)) of squared hundredths
variance(subjects) ==
    LET n == Len(subjects)
        S == sum_scores(subjects)
        Q == sum_squares(subjects)
    IN  IF n > 1 THEN [num |-> n * Q - S * S, den |-> n * (n - 1)]
        ELSE [num |-> 0, den |-> 1]

\* 'std_dev': statistics.stdev(scores) if len(scores) > 1 else 0, in
\* hundredths, rounded up
std_dev(subjects) ==
    LET v == variance(subjects)
    IN  IF Len(subjects) > 1 THEN ceil_sqrt((v.num + v.den - 1) \div v.den, 0, 1000)
        ELSE 0

\* 'consistency_score' written without the parentheses:
\* 100 - stdev / mean * 100 if len(scores) > 1 and mean > 0 else 0
consistency_score_unparenthesised(subjects) ==
    IF Len(subjects) > 1 /\ sum_scores(subjects) > 0
    THEN 10000 - spread_percent(subjects)
    ELSE 0

\* 'consistency_score': 100 - (stdev / mean * 100 if len(scores) > 1 and
\* mean > 0 else 0), in hundredths of a percent, rounded down
consistency_score(subjects) ==
    IF Len(subjects) > 1 /\ sum_scores(subjects) > 0
    THEN 10000 - spread_percent(subjects)
    ELSE 10000

\* the dict of no keys that calculate_statistics returns for an empty list
EmptyStats == [k \in {} |-> 0]

\* the dict literal calculate_statistics returns for a non-empty list
computed_statistics(subjects) ==
    [ count             |-> Len(subjects),
      variance          |-> variance(subjects),
      std_dev           |-> std_dev(subjects),
      min               |-> min_score(subjects),
      max               |-> max_score(subjects),
      range             |-> max_score(subjects) - min_score(subjects),
      min_subject       |-> min_by_score(Head(subjects), Tail(subjects)).name,
      max_subject       |-> max_by_score(Head(subjects), Tail(subjects)).name,
      excellent_count   |-> count_between(subjects, 900, 1001),
      good_count        |-> count_between(subjects, 800, 900),
      average_count     |-> count_between(subjects, 500, 800),
      poor_count        |-> count_between(subjects, 0, 500),
      excellence_rate   |-> (count_between(subjects, 800, 1001) * 10000) \div Len(subjects),
      pass_rate         |-> (count_between(subjects, 500, 1001) * 10000) \div Len(subjects),
      consistency_score |-> consistency_score(subjects) ]

\* an empty list answered with zeroed fields in place of the empty dict
calculate_statistics_zeroed(subjects) ==
    IF subjects = <<>>
    THEN [count |-> 0, min |-> 0, max |-> 0, range |-> 0, consistency_score |-> 10000]
    ELSE computed_statistics(subjects)

\* AdvancedAnalytics.calculate_statistics
calculate_statistics(subjects) ==
    IF subjects = <<>> THEN EmptyStats
    ELSE computed_statistics(subjects)

\* one appended insight string: the rule that produced it, which of the rule's
\* texts it is, and what the f-string interpolates (a subject name, a percent)
Insight(rule, remark, subject, percent) ==
    [rule |-> rule, remark |-> remark, subject |-> subject, percent |-> percent]

\* "GPA analysis": the if / elif / elif / else chain on record.weighted_gpa
gpa_remark(gpa) ==
    IF gpa >= 900 THEN Insight("gpa", "outstanding", "", 0)
    ELSE IF gpa >= 800 THEN Insight("gpa", "good", "", 0)
    ELSE IF gpa >= 650 THEN Insight("gpa", "decent", "", 0)
    ELSE Insight("gpa", "needs_improvement", "", 0)

\* "Consistency": consistency = stats.get('consistency_score', 0)
consistency_remark(stats) ==
    LET consistency == dict_get(stats, "consistency_score", 0)
    IN  IF consistency >= 9000 THEN <<Insight("consistency", "even", "", 0)>>
        ELSE IF consistency < 7000 THEN <<Insight("consistency", "uneven", "", 0)>>
        ELSE <<>>

\* "Perfect score": stats.get('max') == 10.0 (None == 10.0 is False)
perfect_remark(stats) ==
    LET mx == dict_get_opt(stats, "max")
    IN  IF mx # <<>> /\ mx[1] = 1000
        THEN <<Insight("perfect", "perfect", dict_get(stats, "max_subject", None), 0)>>
        ELSE <<>>

\* the WEAK band's 3.5 in place of 5.0
weak_remark_below_weak_band(stats) ==
    IF dict_get(stats, "min", 0) < 350
    THEN <<Insight("weak", "prioritize", dict_get(stats, "min_subject", None), 0)>>
    ELSE <<>>

\* "Weak subjects": stats.get('min') < 5.0, for stats that hold 'min'
\* (generate_insights decides what a missing 'min' does)
weak_remark(stats) ==
    IF dict_get(stats, "min", 0) < 500
    THEN <<Insight("weak", "prioritize", dict_get(stats, "min_subject", None), 0)>>
    ELSE <<>>

\* "Excellence rate": excellence = stats.get('excellence_rate', 0); the text
\* shows f"{excellence:.0f}", the nearest whole percent
excellence_remark(stats) ==
    LET excellence == dict_get(stats, "excellence_rate", 0)
    IN  IF excellence >= 7000
        THEN <<Insight("excellence", "rate", "", round_half_even(excellence, 100))>>
        ELSE <<>>

\* generate_insights with the rules after the first chained by elif: at most
\* one of them fires
generate_insights_chained(stats, rec) ==
    LET gpa   == weighted_gpa(rec)
        rest  == IF consistency_remark(stats) # <<>> THEN consistency_remark(stats)
                 ELSE IF perfect_remark(stats) # <<>> THEN perfect_remark(stats)
                 ELSE IF weak_remark(stats) # <<>> THEN weak_remark(stats)
                 ELSE excellence_remark(stats)
    IN  IF dict_get_opt(stats, "min") = <<>>
        THEN [exception |-> "TypeError", value |-> <<>>]
        ELSE [exception |-> None, value |-> <<gpa_remark(gpa)>> \o rest]

\* AdvancedAnalytics.generate_insights.  Returns [exception, value]: the list
\* of insights, or the exception that leaves the function.  None < 5.0 raises
\* TypeError in Python 3, which nothing in the function catches.
generate_insights(stats, rec) ==
    LET gpa   == weighted_gpa(rec)
        first == <<gpa_remark(gpa)>> \o consistency_remark(stats) \o perfect_remark(stats)
    IN  IF dict_get_opt(stats, "min") = <<>>
        THEN [exception |-> "TypeError", value |-> <<>>]
        ELSE [exception |-> None,
              value     |-> first \o weak_remark(stats) \o excellence_remark(stats)]

\* the sign (-1, 0, 1) of p/q - r/s for p, r >= 0 and q, s > 0, by Euclid's
\* algorithm: whole parts first, then the remainders' fractions upside down
RECURSIVE frac_cmp(_, _, _, _)
frac_cmp(p, q, r, s) ==
    IF p \div q # r \div s THEN (IF p \div q < r \div s THEN -1 ELSE 1)
    ELSE IF p % q = 0 /\ r % s = 0 THEN 0
    ELSE IF p % q = 0 THEN -1
    ELSE IF r % s = 0 THEN 1
    ELSE frac_cmp(s, r % s, q, p % q)

\* the sign of a * b - c * d for naturals, without forming the products
mul_cmp(a, b, c, d) ==
    IF a = 0 \/ b = 0 THEN (IF c = 0 \/ d = 0 THEN 0 ELSE -1)
    ELSE IF c = 0 \/ d = 0 THEN 1
    ELSE frac_cmp(a, c, d, b)

\* consistency = stats.get('consistency_score', 0), held exactly: the fraction
\* num / den is the square of 1 - consistency / 100, that is 1 for the default
\* 0, (stdev / mean)^2 = n*(n*Q - S*S) / ((n-1)*S*S) where the dict's entry
\* subtracts the ratio, and 0 where it subtracts 0
spread_squared(stats, subjects) ==
    LET n == Len(subjects)
        S == sum_scores(subjects)
        Q == sum_squares(subjects)
    IN  IF "consistency_score" \notin DOMAIN stats THEN [num |-> 1, den |-> 1]
        ELSE IF n > 1 /\ S > 0
             THEN [num |-> n * (n * Q - S * S), den |-> (n - 1) * S * S]
             ELSE [num |-> 0, den |-> 1]

\* "percent < consistency" read on the spread: stdev / mean * 100 > percent
consistency_above_of_spread(rho, percent) ==
    mul_cmp(10000, rho.num, percent * percent, rho.den) > 0

\* "consistency > percent" for a whole percent of at most 100:
\* stdev / mean < (100 - percent) / 100
consistency_above(rho, percent) ==
    mul_cmp(10000, rho.num, (100 - percent) * (100 - percent), rho.den) < 0

\* improvement = (10 - current_gpa) * (consistency / 100) * 0.3 is at least
\* k - 1/2 hundredths.  With a = 3 * (1000 - current_gpa) ten times the
\* improvement in hundredths is a * (1 - stdev / mean), so the test is
\* a * stdev / mean <= a - 10*k + 5.
improvement_at_least(a, rho, k) ==
    LET c == a - 10 * k + 5
    IN  c >= 0 /\ mul_cmp(a * a, rho.num, c * c, rho.den) <= 0

\* the greatest k in lo..hi with improvement_at_least (it holds at lo)
RECURSIVE improvement_floor_half(_, _, _, _)
improvement_floor_half(a, rho, lo, hi) ==
    IF lo >= hi THEN lo
    ELSE LET mid == (lo + hi + 1) \div 2
         IN  IF improvement_at_least(a, rho, mid)
             THEN improvement_floor_half(a, rho, mid, hi)
             ELSE improvement_floor_half(a, rho, lo, mid - 1)

\* round(base + improvement, 2) for the improvement with 0.6 in place of 0.3
round_improved_doubled(base, a, rho) ==
    LET k == improvement_floor_half(2 * a, rho, 0 - (8 * a) \div 10 - 1, (2 * a) \div 10 + 1)
    IN  base + k

\* round(base + improvement, 2) in hundredths for a base of whole hundredths:
\* the hundredth nearest to the sum.  stdev / mean is at most sqrt(n), below 5
\* for the 20 entries input_grades allows, so the improvement lies between
\* -4*a/10 and a/10.  (Where the sum lies exactly between two hundredths the
\* last bit of the float decides; see improvement_between_hundredths.)
round_improved(base, a, rho) ==
    base + improvement_floor_half(a, rho, 0 - (4 * a) \div 10 - 1, a \div 10 + 1)

\* the improvement of a record lies exactly between two hundredths, where
\* round(x, 2) goes by the rounding error of the float x and not by its value
improvement_between_hundredths(rec) ==
    LET rho == spread_squared(calculate_statistics(rec.subjects), rec.subjects)
        a   == 3 * (1000 - weighted_gpa(rec))
        c   == a - 10 * round_improved(0, a, rho) + 5
    IN  mul_cmp(a * a, rho.num, c * c, rho.den) = 0

\* sorted(...) placing an entry before the entries of equal score
RECURSIVE sorted_by_score_equal_first(_)
sorted_by_score_equal_first(subjects) ==
    IF subjects = <<>> THEN <<>>
    ELSE LET n     == Len(subjects)
             last  == subjects[n]
             front == sorted_by_score_equal_first(SubSeq(subjects, 1, n - 1))
         IN  SelectSeq(front, LAMBDA e : e.score < last.score) \o <<last>>
             \o SelectSeq(front, LAMBDA e : e.score >= last.score)

\* sorted(record.subjects, key=lambda x: x.score): a new list in ascending
\* order of score; the sort is stable, entries of equal score keep their order
RECURSIVE sorted_by_score(_)
sorted_by_score(subjects) ==
    IF subjects = <<>> THEN <<>>
    ELSE LET n     == Len(subjects)
             last  == subjects[n]
             front == sorted_by_score(SubSeq(subjects, 1, n - 1))
         IN  SelectSeq(front, LAMBDA e : e.score <= last.score) \o <<last>>
             \o SelectSeq(front, LAMBDA e : e.score > last.score)

\* the slice [:k] of a list
first_items(list, k) == SubSeq(list, 1, IF Len(list) < k THEN Len(list) ELSE k)

\* the dict predict_performance returns for a record (pure part)
prediction(rec) ==
    LET stats       == calculate_statistics(rec.subjects)
        current_gpa == weighted_gpa(rec)
        rho         == spread_squared(stats, rec.subjects)
        a           == 3 * (1000 - current_gpa)
        predicted   == round_improved(current_gpa, a, rho)
        lowest      == first_items(sorted_by_score(rec.subjects), 3)
    IN  [ current_gpa           |-> current_gpa,
          predicted_next        |-> IF predicted > 1000 THEN 1000 ELSE predicted,
          improvement_potential |-> round_improved(0, a, rho),
          confidence            |-> IF consistency_above(rho, 80) THEN "Cao"
                                    ELSE IF consistency_above(rho, 60) THEN "Trung binh"
                                    ELSE "Thap",
          recommendation        |-> IF current_gpa >= 800 THEN "Duy tri" ELSE "Cai thien",
          focus_areas           |-> [i \in DOMAIN lowest |-> lowest[i].name] ]

\* predict_performance sorting the record's own list: record.subjects.sort(...)
predict_performance_sorting_in_place(rec) ==
    [ value  |-> prediction(rec),
      record |-> [rec EXCEPT !.subjects = sorted_by_score(rec.subjects)] ]

\* AdvancedAnalytics.predict_performance.  Returns the dict and the record as
\* the call leaves it: sorted() builds a new list and nothing is assigned to
\* the record.
predict_performance(rec) ==
    [ value |-> prediction(rec), record |-> rec ]

---------------------------------------------------------------------------
(* DATABASE MANAGER *)
(* A table is the sequence of its rows in rowid order and a row the tuple  *)
(* of its columns in the order of CREATE TABLE.  The connection is opened  *)
(* with sqlite3's defaults: the first INSERT opens a transaction, which    *)
(* stays open until commit(), and its writes are visible to every later    *)
(* statement on the same connection.                                       *)

\* initialize_database on a new file: three empty tables
EmptyTables == [students |-> <<>>, subjects |-> <<>>, academic_records |-> <<>>]

\* "INSERT OR IGNORE": a row whose key is already there is dropped
insert_or_ignore(rows, row) ==
    IF \E i \in DOMAIN rows : rows[i][1] = row[1] THEN rows ELSE Append(rows, row)

\* INSERT OR REPLACE on a table whose PRIMARY KEY is its first column: the
\* row with the same key is deleted and the new row gets the next rowid
insert_or_replace(rows, row) ==
    LET other(r) == r[1] # row[1]
    IN  Append(SelectSeq(rows, other), row)

\* the students row save_record writes (created_at is the record's)
student_row(rec) ==
    << rec.student.student_id, rec.student.full_name, rec.student.class_name,
       rec.student.academic_year, rec.student.date_of_birth, rec.student.gender,
       rec.student.email, rec.student.phone, rec.created_at >>

\* the subjects row save_record writes for one entry; id is AUTOINCREMENT
subject_row(id, rec, subject) ==
    << id, rec.student.student_id, rec.record_id, subject.name, subject.score,
       subject.weight, subject.category, subject.notes >>

\* the academic_records row save_record writes
summary_row(rec) ==
    << rec.record_id, rec.student.student_id, rec.semester, rec.exam_type,
       simple_gpa(rec), weighted_gpa(rec), record_grade_level(rec).label,
       Len(rec.subjects), rec.created_at >>

\* "for subject in record.subjects: cursor.execute(INSERT INTO subjects ...)"
\* for the first k entries
RECURSIVE insert_subjects(_, _, _)
insert_subjects(rows, rec, k) ==
    IF k = 0 THEN rows
    ELSE LET before == insert_subjects(rows, rec, k - 1)
         IN  Append(before, subject_row(Len(before) + 1, rec, rec.subjects[k]))

\* the statements of one save_record call, numbered in execution order:
\* 1 the students upsert, 2 .. n+1 the subject inserts, n+2 the
\* academic_records upsert, n+3 connection.commit()
CommitStage(rec) == Len(rec.subjects) + 3

\* the tables after the first `done` statements of save_record(rec)
tables_after(tables, rec, done) ==
    LET n == Len(rec.subjects)
        k == IF done - 1 > n THEN n ELSE IF done - 1 < 0 THEN 0 ELSE done - 1
    IN  [students |->
             IF done >= 1
             THEN insert_or_replace(tables.students, student_row(rec))
             ELSE tables.students,
         subjects |-> insert_subjects(tables.subjects, rec, k),
         academic_records |->
             IF done >= n + 2
             THEN insert_or_replace(tables.academic_records, summary_row(rec))
             ELSE tables.academic_records]

\* save_record with connection.commit() after the try block: an error of the
\* commit leaves the method as an exception
save_record_commit_outside_try(tables, rec, fail_at) ==
    LET done == IF fail_at = 0 THEN CommitStage(rec) ELSE fail_at - 1
    IN  [returned  |-> fail_at = 0,
         raised    |-> fail_at = CommitStage(rec),
         tables    |-> tables_after(tables, rec, done),
         committed |-> fail_at = 0,
         record    |-> rec]

\* save_record stamping the record with a new created_at while it saves it
save_record_restamping(tables, rec, fail_at) ==
    LET done == IF fail_at = 0 THEN CommitStage(rec) ELSE fail_at - 1
    IN  [returned  |-> fail_at = 0,
         raised    |-> FALSE,
         tables    |-> tables_after(tables, rec, done),
         committed |-> fail_at = 0,
         record    |-> [rec EXCEPT !.created_at = @ + 1]]

\* DatabaseManager.save_record on the connection's tables.  fail_at is the
\* statement that raises (0: none); the statements before it have been
\* executed, "except Exception" turns the error into "return False", and
\* nothing rolls the open transaction back.  The result tells what the call
\* returned, whether an exception left it, the tables the connection sees
\* afterwards, whether they were committed, and the record object after the
\* call (save_record only reads it).
save_record(tables, rec, fail_at) ==
    LET done == IF fail_at = 0 THEN CommitStage(rec) ELSE fail_at - 1
    IN  [returned  |-> fail_at = 0,
         raised    |-> FALSE,
         tables    |-> tables_after(tables, rec, done),
         committed |-> fail_at = 0,
         record    |-> rec]

\* the SELECT without "ORDER BY created_at DESC": the rows in rowid order
order_by_rowid(rows) == rows

\* rows sorted by column 9 (created_at) descending; rows of equal created_at
\* keep their rowid order
RECURSIVE order_by_created_at_desc(_)
order_by_created_at_desc(rows) ==
    IF rows = <<>> THEN <<>>
    ELSE LET newest == CHOOSE i \in DOMAIN rows :
                          /\ \A j \in DOMAIN rows : rows[j][9] <= rows[i][9]
                          /\ \A j \in 1..(i - 1) : rows[j][9] < rows[i][9]
             rest   == [j \in 1..(Len(rows) - 1) |->
                           IF j < newest THEN rows[j] ELSE rows[j + 1]]
         IN  <<rows[newest]>> \o order_by_created_at_desc(rest)

\* dict(zip(columns, row)) for a row of academic_records
summary_dict(row) ==
    [record_id |-> row[1], student_id |-> row[2], semester |-> row[3],
     exam_type |-> row[4], simple_gpa |-> row[5], weighted_gpa |-> row[6],
     grade_level |-> row[7], total_subjects |-> row[8], created_at |-> row[9]]

\* every summary, whatever its student_id (the WHERE clause left out)
get_student_records_unfiltered(tables, student_id) ==
    LET sorted == order_by_created_at_desc(tables.academic_records)
    IN  [i \in DOMAIN sorted |-> summary_dict(sorted[i])]

\* DatabaseManager.get_student_records
get_student_records(tables, student_id) ==
    LET mine(r) == r[2] = student_id
        sorted  == order_by_created_at_desc(SelectSeq(tables.academic_records, mine))
    IN  [i \in DOMAIN sorted |-> summary_dict(sorted[i])]

\* GradeManagementSystem.get_student_info: <<StudentInfo>>, or <<>> for None
get_student_info(tables, student_id) ==
    LET mine(r) == r[1] = student_id
        rows    == SelectSeq(tables.students, mine)
    IN  IF rows = <<>> THEN <<>>
        ELSE LET row == rows[1]
             IN  << StudentInfo(row[1], row[2], row[3], row[4],
                                row[5], row[6], row[7], row[8]) >>

\* SELECT s.*, ar.semester, ar.exam_type, ar.created_at FROM students s JOIN
\* academic_records ar ON s.student_id = ar.student_id WHERE ar.record_id = ?
\* : the joined rows, nine columns of students and then three of the summary
joined_rows(tables, record_id) ==
    LET wanted(ar) == ar[1] = record_id
        summaries  == SelectSeq(tables.academic_records, wanted)
    IN  IF summaries = <<>> THEN <<>>
        ELSE LET ar        == summaries[1]
                 owner(st) == st[1] = ar[2]
                 owners    == SelectSeq(tables.students, owner)
             IN  [i \in DOMAIN owners |-> owners[i] \o <<ar[3], ar[4], ar[9]>>]

\* SELECT subject_name, score, weight, category, notes FROM subjects WHERE
\* record_id = ? : a table scan, so the rows come in rowid order
selected_subjects(tables, record_id) ==
    LET wanted(r) == r[3] = record_id
        rows      == SelectSeq(tables.subjects, wanted)
    IN  [i \in DOMAIN rows |-> <<rows[i][4], rows[i][5], rows[i][6], rows[i][7], rows[i][8]>>]

\* created_at read from column 8 of the joined row (students.created_at) in
\* place of column 11 (academic_records.created_at); columns count from 0
load_record_by_id_student_created_at(tables, record_id) ==
    LET rows == joined_rows(tables, record_id)
    IN  IF rows = <<>> THEN <<>>
        ELSE LET row  == rows[1]
                 subs == selected_subjects(tables, record_id)
             IN  << AcademicRecord(
                      StudentInfo(row[1], row[2], row[3], row[4],
                                  row[5], row[6], row[7], row[8]),
                      row[10], row[11],
                      [i \in DOMAIN subs |->
                          SubjectInfo(subs[i][1], subs[i][2], subs[i][3], subs[i][4], subs[i][5])],
                      row[9], record_id) >>

\* GradeManagementSystem.load_record_by_id: <<AcademicRecord>>, or <<>> for
\* None.  (row[9], row[10], row[11] of the source are columns 10, 11, 12 here.)
load_record_by_id(tables, record_id) ==
    LET rows == joined_rows(tables, record_id)
    IN  IF rows = <<>> THEN <<>>
        ELSE LET row  == rows[1]
                 subs == selected_subjects(tables, record_id)
             IN  IF \E i \in DOMAIN subs :
                       ~subject_valid(SubjectInfo(subs[i][1], subs[i][2], subs[i][3],
                                                  subs[i][4], subs[i][5]))
                 THEN <<>>
                 ELSE << AcademicRecord(
                           StudentInfo(row[1], row[2], row[3], row[4],
                                       row[5], row[6], row[7], row[8]),
                           row[10], row[11],
                           [i \in DOMAIN subs |->
                               SubjectInfo(subs[i][1], subs[i][2], subs[i][3],
                                           subs[i][4], subs[i][5])],
                           row[12], record_id) >>

---------------------------------------------------------------------------
(* SpecCalc: the data model and the analytics applied to one record *)

\* scores the analytics specification draws, in hundredths
Scores == {0, 350, 400, 500, 700, 800, 1000}

\* the weights SubjectInfo accepts
Weights == {1, 2, 3}

\* names of the entries of a drawn list of n subjects (unique within the list)
InputNames(n) ==
    IF n = 1 THEN <<"Art">> ELSE <<"Math", "Lit", "Eng", "Art", "Bio">>

\* the list of n subjects with scores sc[1..n] and weights w[1..n]
SubjectList(n, sc, w) ==
    [i \in 1..n |-> SubjectInfo(InputNames(n)[i], sc[i], w[i], None, None)]

\* a student as input_student_info builds one: the optional fields stay None
InputStudent(student_id, full_name) ==
    StudentInfo(student_id, full_name, "10A1", "2026-2027", None, None, None, None)

\* the record the analytics are applied to
InputRecord(subjects) ==
    AcademicRecord(InputStudent("HS000001", "An"), "Hoc ky I", "Giua ky", subjects, 1, "r1")

\* what the store and application variables hold while SpecCalc runs
StoreIdle ==
    /\ conn = <<>> /\ disk = <<>> /\ op = <<>> /\ result = <<>>
    /\ saved = <<>> /\ attempts = 0
AppIdle ==
    /\ current_record = <<>> /\ app_pc = "" /\ save_outcome = "" /\ exported = <<>>
DraftIdle ==
    /\ args = <<>> /\ made = <<>> /\ draft = <<>> /\ draft_names = {}
    /\ num_subjects = 0 /\ subject_name = <<>> /\ draft_pc = ""

CalcInit ==
    /\ \E n \in 0..MaxSubjects :
          \E sc \in [1..n -> Scores], w \in [1..n -> Weights] :
             record = InputRecord(SubjectList(n, sc, w))
    /\ calc_pc = "input"
    /\ out = <<>>
    /\ StoreIdle
    /\ AppIdle
    /\ DraftIdle

\* reading record.simple_gpa, record.weighted_gpa and record.grade_level
ComputeGpa ==
    /\ calc_pc = "input"
    /\ calc_pc' = "gpa"
    /\ out' = [simple_gpa   |-> simple_gpa(record),
               weighted_gpa |-> weighted_gpa(record),
               grade_level  |-> record_grade_level(record).name]
    /\ UNCHANGED <<record, store_vars, app_vars, draft_vars>>

\* reading subject.grade_level of every entry (the grades table of a report)
GradeSubjects ==
    /\ calc_pc = "input"
    /\ calc_pc' = "subject_grades"
    /\ out' = [i \in DOMAIN record.subjects |->
                  subject_grade_level(record.subjects[i]).name]
    /\ UNCHANGED <<record, store_vars, app_vars, draft_vars>>

\* stats = AdvancedAnalytics.calculate_statistics(record.subjects)
CalculateStatistics ==
    /\ calc_pc = "input"
    /\ calc_pc' = "statistics"
    /\ out' = calculate_statistics(record.subjects)
    /\ UNCHANGED <<record, store_vars, app_vars, draft_vars>>

\* insights = AdvancedAnalytics.generate_insights(stats, record), with the
\* stats of the same record as every caller passes them
GenerateInsights ==
    /\ calc_pc = "input"
    /\ calc_pc' = "insights"
    /\ out' = generate_insights(calculate_statistics(record.subjects), record)
    /\ UNCHANGED <<record, store_vars, app_vars, draft_vars>>

CalcNext == ComputeGpa \/ GradeSubjects \/ CalculateStatistics \/ GenerateInsights

SpecCalc == CalcInit /\ [][CalcNext]_vars

---------------------------------------------------------------------------
(* Properties of the data model and the analytics (checked under SpecCalc) *)

\* the entries of the scenario [("Math",10,2),("Lit",8,2),("Eng",7,2)]
MathLitEng ==
    << SubjectInfo("Math", 1000, 2, None, None),
       SubjectInfo("Lit", 800, 2, None, None),
       SubjectInfo("Eng", 700, 2, None, None) >>

\* the entries of the scenario [("Art",4,1)]
ArtOnly == << SubjectInfo("Art", 400, 1, None, None) >>

\* v is a value of hundredths nearest to num / den
NearestTo(v, num, den) ==
    LET diff == IF v * den >= num THEN v * den - num ELSE num - v * den
    IN  2 * diff <= den

\* name is the band of the highest threshold that v meets, in the table of
\* section 3: OUTSTANDING 9.0, EXCELLENT 8.0, GOOD 6.5, AVERAGE 5.0, WEAK 3.5, POOR 0.0
IsBandOf(name, v) ==
    LET bands == { <<"OUTSTANDING", 900>>, <<"EXCELLENT", 800>>, <<"GOOD", 650>>,
                   <<"AVERAGE", 500>>, <<"WEAK", 350>>, <<"POOR", 0>> }
    IN  \E b \in bands :
           /\ b[1] = name
           /\ b[2] <= v
           /\ \A c \in bands : c[2] <= v => c[2] <= b[2]

\* C3: for a record with an empty subject list generate_insights returns,
\* without error, exactly one remark, the lowest GPA-tier remark; rules 2 to 5
\* add nothing.
C3_EmptyRecordOneRemark ==
    (calc_pc = "insights" /\ record.subjects = <<>>) =>
        /\ out.exception = None
        /\ out.value = << Insight("gpa", "needs_improvement", "", 0) >>

\* C7: for every record with at least one subject simple_gpa is the mean of
\* the scores (weights ignored) rounded to 2 decimals and weighted_gpa is
\* sum(score * weight) / sum(weight) rounded to 2 decimals; the scenario
\* Math 10, Lit 8, Eng 7 (weights 2) gives 8.33 for both.
C7_GpaIsRoundedMean ==
    (calc_pc = "gpa" /\ record.subjects # <<>>) =>
        /\ NearestTo(out.simple_gpa, sum_scores(record.subjects), Len(record.subjects))
        /\ NearestTo(out.weighted_gpa, sum_weighted(record.subjects),
                     sum_weights(record.subjects))
        /\ record.subjects = MathLitEng =>
              (out.simple_gpa = 833 /\ out.weighted_gpa = 833)

\* C7 witness: the GPAs of the scenario record have been computed
C7_Witness ==
    /\ calc_pc = "gpa"
    /\ record.subjects = MathLitEng
    /\ out.simple_gpa = 833
    /\ out.weighted_gpa = 833

\* C8: a record with no subject entries has simple_gpa = weighted_gpa = 0.0
\* and grade level POOR, and calculate_statistics on its empty list returns a
\* result with no computed fields.
C8_EmptyRecord ==
    record.subjects = <<>> =>
        /\ calc_pc = "gpa" =>
              (out.simple_gpa = 0 /\ out.weighted_gpa = 0 /\ out.grade_level = "POOR")
        /\ calc_pc = "statistics" => DOMAIN out = {}

\* C8 witness: the statistics of the empty record have been computed
C8_Witness ==
    /\ calc_pc = "statistics"
    /\ record.subjects = <<>>
    /\ out = EmptyStats

\* C9: a subject's grade_level is the band of the highest threshold its score
\* meets, and a record's grade_level is that band for its weighted_gpa (not
\* for its simple_gpa).
C9_GradeBand ==
    /\ calc_pc = "subject_grades" =>
          \A i \in DOMAIN record.subjects : IsBandOf(out[i], record.subjects[i].score)
    /\ calc_pc = "gpa" => IsBandOf(out.grade_level, out.weighted_gpa)

\* C9 witness: a graded record whose simple_gpa lies in another band than its
\* weighted_gpa
C9_Witness ==
    /\ calc_pc = "gpa"
    /\ ~IsBandOf(out.grade_level, out.simple_gpa)
    /\ IsBandOf(out.grade_level, out.weighted_gpa)

\* the parts of the scenario [("Art",4,1)] other than the grade: both GPAs
\* are 4.0, min = max = 4.0, no perfect-score remark, and the 'prioritize'
\* remark names Art
ArtScenarioRest ==
    /\ calc_pc = "gpa" => (out.simple_gpa = 400 /\ out.weighted_gpa = 400)
    /\ calc_pc = "statistics" => (out.min = 400 /\ out.max = 400)
    /\ calc_pc = "insights" =>
          /\ out.exception = None
          /\ \A i \in DOMAIN out.value : out.value[i].rule # "perfect"
          /\ \E i \in DOMAIN out.value :
                out.value[i] = Insight("weak", "prioritize", "Art", 0)

\* C10 as stated: for the record whose only subject is ("Art", 4, 1) both
\* GPAs are 4.0, the grade is POOR, min = max = 4.0 with no perfect-score
\* remark, and the 'prioritize' remark names Art.
C10_ArtScenarioPoor ==
    record.subjects = ArtOnly =>
        /\ ArtScenarioRest
        /\ calc_pc = "gpa" => out.grade_level = "POOR"

\* C10 amended: as above, but the grade is WEAK (4.0 meets the 3.5 threshold).
C10_ArtScenarioWeak ==
    record.subjects = ArtOnly =>
        /\ ArtScenarioRest
        /\ calc_pc = "gpa" => out.grade_level = "WEAK"

\* C10 witness: the insights of the Art record hold the 'prioritize' remark
C10_Witness ==
    /\ calc_pc = "insights"
    /\ record.subjects = ArtOnly
    /\ \E i \in DOMAIN out.value : out.value[i] = Insight("weak", "prioritize", "Art", 0)

---------------------------------------------------------------------------
(* Spec: the record store behind one connection *)

\* the records the store specification saves: two student ids, one of them
\* under two names, two record ids, and two subject lists (input_grades gives a
\* known subject its category and leaves notes None)
StudentIds == {"HS000001", "HS000002"}
StoreStudents ==
    { InputStudent("HS000001", "An"), InputStudent("HS000001", "Binh"),
      InputStudent("HS000002", "An") }
RecordIds == {"r1", "r2"}
StoreSubjectLists ==
    { << SubjectInfo("Math", 1000, 2, "Khoa hoc Tu nhien", None),
         SubjectInfo("Art", 400, 1, None, None) >>,
      << SubjectInfo("Art", 400, 1, None, None) >> }

\* datetime.now().isoformat() at construction: a later record has a later time
CreatedAt(record_id) == IF record_id = "r1" THEN 1 ELSE 2

StoreRecords ==
    { AcademicRecord(st, "Hoc ky I", "Giua ky", subs, CreatedAt(rid), rid) :
        st \in StoreStudents, subs \in StoreSubjectLists, rid \in RecordIds }

\* what the analytics variables hold while the store or the application runs
CalcIdle == record = <<>> /\ calc_pc = "" /\ out = <<>>

Init ==
    /\ conn = EmptyTables
    /\ disk = EmptyTables
    /\ op = <<"open">>
    /\ result = <<>>
    /\ saved = <<>>
    /\ attempts = 0
    /\ CalcIdle
    /\ AppIdle
    /\ DraftIdle

\* db.save_record(rec); the statement fail_at raises (0: none does)
SaveRecord(rec, fail_at) ==
    LET r == save_record(conn, rec, fail_at)
    IN  /\ attempts < MaxSaves
        /\ conn' = r.tables
        /\ disk' = IF r.committed THEN r.tables ELSE disk
        /\ op' = <<"save_record", rec, fail_at>>
        /\ result' = r.returned
        /\ saved' = IF r.returned THEN (rec.record_id :> rec) @@ saved ELSE saved
        /\ attempts' = attempts + 1
        /\ UNCHANGED <<calc_vars, app_vars, draft_vars>>

\* get_student_info(student_id)
GetStudentInfo(student_id) ==
    /\ op' = <<"get_student_info", student_id>>
    /\ result' = get_student_info(conn, student_id)
    /\ UNCHANGED <<conn, disk, saved, attempts, calc_vars, app_vars, draft_vars>>

\* db.get_student_records(student_id)
GetStudentRecords(student_id) ==
    /\ op' = <<"get_student_records", student_id>>
    /\ result' = get_student_records(conn, student_id)
    /\ UNCHANGED <<conn, disk, saved, attempts, calc_vars, app_vars, draft_vars>>

\* load_record_by_id(record_id)
LoadRecordById(record_id) ==
    /\ op' = <<"load_record_by_id", record_id>>
    /\ result' = load_record_by_id(conn, record_id)
    /\ UNCHANGED <<conn, disk, saved, attempts, calc_vars, app_vars, draft_vars>>

\* db.close() when run() ends, then a new run: DatabaseManager() connects to
\* the same file.  Closing rolls the open transaction back.
Reopen ==
    /\ conn # disk
    /\ conn' = disk
    /\ op' = <<"open">>
    /\ result' = <<>>
    /\ UNCHANGED <<disk, saved, attempts, calc_vars, app_vars, draft_vars>>

Save == \E rec \in StoreRecords : \E fail_at \in 0..CommitStage(rec) : SaveRecord(rec, fail_at)
InfoLookup == \E student_id \in StudentIds : GetStudentInfo(student_id)
RecordsLookup == \E student_id \in StudentIds : GetStudentRecords(student_id)
LoadLookup == \E record_id \in RecordIds : LoadRecordById(record_id)

Next == Save \/ InfoLookup \/ RecordsLookup \/ LoadLookup \/ Reopen

Spec == Init /\ [][Next]_vars

---------------------------------------------------------------------------
(* Properties of the record store (checked under Spec) *)

\* the rows of a table, as a set
Rows(table) == { table[i] : i \in DOMAIN table }

\* the three writes of save_record(rec) are visible in the tables
WritesVisible(tables, rec) ==
    /\ student_row(rec) \in Rows(tables.students)
    /\ summary_row(rec) \in Rows(tables.academic_records)
    /\ \A k \in DOMAIN rec.subjects :
          \E row \in Rows(tables.subjects) :
             row = subject_row(row[1], rec, rec.subjects[k])

\* C1: save_record is atomic across its three writes: a save that reports
\* success has all three writes visible together; a save that reports
\* failure leaves none of its writes visible to a later lookup, and a later
\* successful save makes durable only its own writes.
C1_SaveAtomic ==
    [][ (op'[1] = "save_record" /\ attempts' = attempts + 1) =>
            LET rec == op'[2]
            IN  /\ result' = TRUE  => WritesVisible(conn', rec)
                /\ result' = FALSE => conn' = conn
                /\ result' = TRUE  =>
                      /\ Rows(disk'.students) \subseteq
                            Rows(disk.students) \cup {student_row(rec)}
                      /\ Rows(disk'.academic_records) \subseteq
                            Rows(disk.academic_records) \cup {summary_row(rec)}
                      /\ \A row \in Rows(disk'.subjects) \ Rows(disk.subjects) :
                            row[3] = rec.record_id
      ]_vars

\* C2: round trip: after save_record(record) succeeded, load_record_by_id of
\* its record_id returns a record equal to it in every field (subject list in
\* order, student metadata, semester, exam_type, record_id, created_at),
\* whatever other saves happened before or after on the same store.
C2_RoundTrip ==
    \A rid \in DOMAIN saved : load_record_by_id(conn, rid) = <<saved[rid]>>

\* a student_id / record_id that the tables hold no row for
StudentUnknown(tables, student_id) ==
    \A row \in Rows(tables.students) : row[1] # student_id
RecordUnknown(tables, record_id) ==
    \A row \in Rows(tables.academic_records) : row[1] # record_id

\* C6: a lookup with an unknown identifier yields an absent or empty result:
\* get_student_info gives None, get_student_records an empty list,
\* load_record_by_id None; and no lookup changes the store.
C6_UnknownLookup ==
    [][ /\ (op'[1] = "get_student_info" /\ StudentUnknown(conn, op'[2])) => result' = <<>>
        /\ (op'[1] = "get_student_records" /\ StudentUnknown(conn, op'[2])) => result' = <<>>
        /\ (op'[1] = "load_record_by_id" /\ RecordUnknown(conn, op'[2])) => result' = <<>>
        /\ op'[1] \in {"get_student_info", "get_student_records", "load_record_by_id"} =>
              (conn' = conn /\ disk' = disk)
      ]_vars

\* C6 witness: the summaries of an unknown student were asked of a store
\* that holds another student's record, and the list came back empty
C6_Witness ==
    /\ op[1] = "get_student_records"
    /\ StudentUnknown(conn, op[2])
    /\ conn.academic_records # <<>>
    /\ result = <<>>

---------------------------------------------------------------------------
(* GradeManagementSystem: the menu loop of run() over one store (SpecApp) *)

MaxRecords == 2

AppNames == {"An"}
AppSubjectLists ==
    { << SubjectInfo("Toan", 1000, 2, "Khoa hoc Tu nhien", None),
         SubjectInfo("Art", 400, 1, None, None) >>,
      << SubjectInfo("Art", 400, 1, None, None) >> }

\* record_id is the first 12 hex digits of the MD5 digest of the clock reading
\* at construction: equal readings give equal ids
RecordIdAt(time) == << "r1", "r2", "r3", "r4" >>[time]

\* display_report: the analytics the report prints; they raise for no record
\* that input_grades can return
display_report(rec) ==
    generate_insights(calculate_statistics(rec.subjects), rec).exception

AppInit ==
    /\ conn = EmptyTables
    /\ disk = EmptyTables
    /\ op = <<"open">>
    /\ result = <<>>
    /\ saved = <<>>
    /\ attempts = 0
    /\ current_record = <<>>
    /\ app_pc = "menu"
    /\ save_outcome = ""
    /\ exported = <<>>
    /\ CalcIdle
    /\ DraftIdle

\* create_new_record up to the prompt "save this record?": the student is the
\* stored one when the id is known, the entered one otherwise; the record is
\* stamped with now, the reading of datetime.now() at its construction (a wall
\* clock: the reading of the previous construction, or a later one), and the
\* report is displayed
CreateNewRecord(student_id, full_name, subjects, now) ==
    LET existing_student == get_student_info(conn, student_id)
        student == IF existing_student # <<>> THEN existing_student[1]
                   ELSE InputStudent(student_id, full_name)
        rec == AcademicRecord(student, "Hoc ky I", "Giua ky", subjects,
                              now, RecordIdAt(now))
    IN  /\ app_pc = "menu"
        /\ attempts < MaxRecords
        /\ current_record' = <<rec>>
        /\ app_pc' = IF display_report(rec) = None THEN "confirm_save" ELSE "exited"
        /\ save_outcome' = ""
        /\ attempts' = attempts + 1
        /\ op' = <<"create_new_record", student_id>>
        /\ result' = existing_student
        /\ UNCHANGED <<conn, disk, saved, exported, calc_vars, draft_vars>>

\* the rest of create_new_record: the answer to the prompt and, on yes,
\* db.save_record(self.current_record), whose statement fail_at raises
ConfirmSave(answer, fail_at) ==
    LET r == save_record(conn, current_record[1], fail_at)
    IN  /\ app_pc = "confirm_save"
        /\ IF answer
           THEN /\ conn' = IF r.raised THEN disk ELSE r.tables
                /\ disk' = IF r.committed THEN r.tables ELSE disk
                /\ current_record' = <<r.record>>
                /\ op' = <<"save_record", current_record[1], fail_at>>
                /\ result' = r.returned
                /\ saved' = IF r.returned
                            THEN (r.record.record_id :> r.record) @@ saved
                            ELSE saved
                /\ save_outcome' = IF r.raised THEN "raised"
                                   ELSE IF r.returned THEN "saved" ELSE "failed"
                /\ app_pc' = IF r.raised THEN "exited" ELSE "menu"
           ELSE /\ op' = <<"confirm", FALSE>>
                /\ result' = <<>>
                /\ save_outcome' = "declined"
                /\ app_pc' = "menu"
                /\ UNCHANGED <<conn, disk, current_record, saved>>
        /\ UNCHANGED <<attempts, exported, calc_vars, draft_vars>>

\* view_records: the summaries of one student
ViewRecords(student_id) ==
    /\ app_pc = "menu"
    /\ op' = <<"view_records", student_id>>
    /\ result' = get_student_records(conn, student_id)
    /\ UNCHANGED <<conn, disk, saved, attempts, current_record, app_pc,
                   save_outcome, exported, calc_vars, draft_vars>>

\* export_menu: the summaries of the student asked for, the choice among
\* them, the record loaded from the store and handed to the exporter
ExportMenu(student_id, record_choice) ==
    LET records == get_student_records(conn, student_id)
        selected_record_id == records[IF Len(records) > 1 THEN record_choice ELSE 1].record_id
    IN  /\ app_pc = "menu"
        /\ records # <<>> => record_choice \in 1..Len(records)
        /\ records = <<>> => record_choice = 1
        /\ op' = <<"export_menu", student_id, record_choice>>
        /\ result' = records
        /\ exported' = IF records = <<>> THEN <<>>
                       ELSE load_record_by_id(conn, selected_record_id)
        /\ UNCHANGED <<conn, disk, saved, attempts, current_record, app_pc,
                       save_outcome, calc_vars, draft_vars>>

\* run() ends (menu choice 0, or an exception reaches it) and closes the
\* store; the program is started again on the same file
Restart ==
    /\ app_pc \in {"menu", "exited"}
    /\ current_record # <<>> \/ conn # disk
    /\ conn' = disk
    /\ current_record' = <<>>
    /\ app_pc' = "menu"
    /\ save_outcome' = ""
    /\ exported' = <<>>
    /\ op' = <<"open">>
    /\ result' = <<>>
    /\ UNCHANGED <<disk, saved, attempts, calc_vars, draft_vars>>

Create ==
    \E student_id \in StudentIds, full_name \in AppNames, subjects \in AppSubjectLists :
        \E now \in { t \in {attempts, attempts + 1} : t >= 1 } :
            CreateNewRecord(student_id, full_name, subjects, now)
Confirm ==
    \E answer \in BOOLEAN :
        \E fail_at \in 0..(IF answer /\ current_record # <<>>
                           THEN CommitStage(current_record[1]) ELSE 0) :
            ConfirmSave(answer, fail_at)
View == \E student_id \in StudentIds : ViewRecords(student_id)
Export ==
    \E student_id \in StudentIds, record_choice \in 1..MaxRecords :
        ExportMenu(student_id, record_choice)

AppNext == Create \/ Confirm \/ View \/ Export \/ Restart

SpecApp == AppInit /\ [][AppNext]_vars

---------------------------------------------------------------------------
(* Properties of the application (checked under SpecApp) *)

\* C4: when a write fails while the record is saved, save_record reports the
\* failure by returning False instead of raising (the menu loop goes on), and
\* the in-memory record is left unchanged.
C4_FailedSaveReported ==
    [][ (app_pc = "confirm_save" /\ op'[1] = "save_record" /\ op'[3] # 0) =>
            /\ save_outcome' = "failed"
            /\ app_pc' = "menu"
            /\ result' = FALSE
            /\ current_record' = current_record
      ]_vars

\* C4 witness: the commit of a save failed, the failure was reported and the
\* record the application holds is the one that was handed to save_record
C4_Witness ==
    /\ save_outcome = "failed"
    /\ op[1] = "save_record"
    /\ op[3] = CommitStage(op[2])
    /\ current_record = <<op[2]>>
    /\ app_pc = "menu"

\* the record that some input to export_menu hands to the exporter
Exportable(rec) ==
    \E student_id \in StudentIds :
        LET records == get_student_records(conn, student_id)
        IN  \E record_choice \in DOMAIN records :
               load_record_by_id(conn, records[record_choice].record_id) = <<rec>>

\* C5: after a failed save the application can still export the in-memory
\* record (the export does not depend on the record being in the store).
C5_ExportAfterFailedSave ==
    (app_pc = "menu" /\ save_outcome = "failed") => Exportable(current_record[1])

---------------------------------------------------------------------------
(* SpecConstruct: SubjectInfo(name, score, weight) on any score and weight *)

\* the scores given to the constructor: -0.5, 0, 0.5, ..., 10, 10.5, nan, inf
ConstructScores == { k * 50 : k \in -1..21 } \cup {NaN, Inf}
ConstructWeights == 0..4

ConstructInit ==
    /\ \E score \in ConstructScores, weight \in ConstructWeights :
          args = [score |-> score, weight |-> weight]
    /\ made = <<>>
    /\ draft = <<>> /\ draft_names = {}
    /\ num_subjects = 0 /\ subject_name = <<>> /\ draft_pc = ""
    /\ CalcIdle
    /\ StoreIdle
    /\ AppIdle

\* SubjectInfo("Art", score, weight): __post_init__ raises ValueError or the
\* entry exists, and then its weighted_score is read
Construct ==
    LET s == SubjectInfo("Art", args.score, args.weight, None, None)
    IN  /\ made = <<>>
        /\ made' = IF subject_valid(s)
                   THEN [exception |-> None, value |-> <<s>>,
                         weighted_score |-> <<weighted_score(s)>>]
                   ELSE [exception |-> "ValueError", value |-> <<>>,
                         weighted_score |-> <<>>]
        /\ UNCHANGED <<args, draft, draft_names, num_subjects, subject_name,
                       draft_pc, calc_vars, store_vars, app_vars>>

ConstructNext == Construct

SpecConstruct == ConstructInit /\ [][ConstructNext]_vars

\* the score lies in the closed interval [0, 10] (nan lies in no interval)
InClosedInterval(score) == score # NaN /\ score >= 0 /\ score <= 1000

\* C11: constructing a subject entry fails with a validation error exactly
\* when the score is outside [0, 10] or the weight is not 1, 2 or 3; for a
\* score in [0, 10] and a weight in {1, 2, 3} it succeeds and
\* weighted_score = score * weight.
C11_ConstructionValidates ==
    made # <<>> =>
        /\ made.exception = "ValueError" <=>
              (~InClosedInterval(args.score) \/ args.weight \notin {1, 2, 3})
        /\ (InClosedInterval(args.score) /\ args.weight \in {1, 2, 3}) =>
              /\ made.exception = None
              /\ made.value = <<SubjectInfo("Art", args.score, args.weight, None, None)>>
              /\ made.weighted_score = <<args.score * args.weight>>

\* C11 witness: the entry with score 10 (the closed end) and weight 3 exists
\* with weighted_score 30
C11_Witness ==
    /\ made # <<>>
    /\ args = [score |-> 1000, weight |-> 3]
    /\ made.exception = None
    /\ made.weighted_score = <<3000>>

---------------------------------------------------------------------------
(* SpecDraft: input_grades, the entry of the subjects of one record.       *)
(* A text is the sequence of its characters, so that strip(), lower() and  *)
(* title() are computed character by character.  Diacritics are dropped.   *)

\* the cased letters the typed texts use, and U+212A KELVIN SIGN: an
\* upper-case letter whose lower case is "k" and whose title case is itself
Lowercase == << "a", "d", "e", "h", "i", "k", "l", "n", "o", "p", "s", "t", "u", "v" >>
Uppercase == << "A", "D", "E", "H", "I", "K", "L", "N", "O", "P", "S", "T", "U", "V" >>
KelvinSign == "U+212A"

is_lower(c) == \E i \in DOMAIN Lowercase : Lowercase[i] = c
is_upper(c) == c = KelvinSign \/ \E i \in DOMAIN Uppercase : Uppercase[i] = c
is_cased(c) == is_lower(c) \/ is_upper(c)

\* the lower case and the title case of one character
lower_char(c) ==
    IF c = KelvinSign THEN "k"
    ELSE IF is_upper(c) THEN Lowercase[CHOOSE i \in DOMAIN Uppercase : Uppercase[i] = c]
    ELSE c
title_char(c) ==
    IF is_lower(c) THEN Uppercase[CHOOSE i \in DOMAIN Lowercase : Lowercase[i] = c]
    ELSE c

\* str.lower()
str_lower(text) == [i \in DOMAIN text |-> lower_char(text[i])]

\* str.title(): title case after an uncased character, lower case after a cased one
str_title(text) ==
    [i \in DOMAIN text |->
        IF i > 1 /\ is_cased(text[i - 1]) THEN lower_char(text[i]) ELSE title_char(text[i])]

\* str.strip()
RECURSIVE str_strip(_)
str_strip(text) ==
    IF text = <<>> THEN text
    ELSE IF Head(text) = " " THEN str_strip(Tail(text))
    ELSE IF text[Len(text)] = " " THEN str_strip(SubSeq(text, 1, Len(text) - 1))
    ELSE text

\* UserInterface.input_text without validator: the stripped line
input_text(line) == str_strip(line)

\* the commands of input_grades
Help == << "h", "e", "l", "p" >>
List == << "l", "i", "s", "t" >>
Undo == << "u", "n", "d", "o" >>

\* SUBJECT_WEIGHTS.get(subject_name, 1)
SUBJECT_WEIGHTS(name) ==
    IF name \in { << "T", "o", "a", "n" >>, << "V", "a", "n" >>, << "A", "n", "h" >> }
    THEN 2 ELSE 1

\* the category of SUBJECT_CATEGORIES that lists the name, None if none does
SUBJECT_CATEGORIES(name) ==
    IF name = << "T", "o", "a", "n" >> THEN "Khoa hoc Tu nhien"
    ELSE IF name = << "V", "a", "n" >> THEN "Khoa hoc Xa hoi"
    ELSE IF name = << "A", "n", "h" >> THEN "Ngoai ngu"
    ELSE None

\* the lines typed at the score prompt; CtrlC is a KeyboardInterrupt
CtrlC == "^C"
ScoreLines == { "abc", "nan", "inf", "-1", "0", "5.5", "10", "10.5", CtrlC }

\* float(value) raises ValueError
float_raises(line) ==
    line \notin { "nan", "inf", "-1", "0", "1", "2.5", "3", "5.5", "10", "10.5", "21" }

\* float(value), in hundredths
float_of(line) ==
    CASE line = "nan"  -> NaN
      [] line = "inf"  -> Inf
      [] line = "-1"   -> -100
      [] line = "0"    -> 0
      [] line = "1"    -> 100
      [] line = "2.5"  -> 250
      [] line = "3"    -> 300
      [] line = "5.5"  -> 550
      [] line = "10"   -> 1000
      [] line = "10.5" -> 1050
      [] line = "21"   -> 2100

\* input_number without the two range tests
input_number_unranged(line, min_val, max_val) ==
    IF line = CtrlC THEN [returns |-> TRUE, value |-> <<>>]
    ELSE IF float_raises(line) THEN [returns |-> FALSE, value |-> <<>>]
    ELSE [returns |-> TRUE, value |-> <<float_of(line)>>]

\* one turn of the loop of UserInterface.input_number(prompt, min_val, max_val)
\* on one typed line: it returns None, asks again, or returns the number
input_number(line, min_val, max_val) ==
    IF line = CtrlC THEN [returns |-> TRUE, value |-> <<>>]
    ELSE IF float_raises(line) THEN [returns |-> FALSE, value |-> <<>>]
    ELSE IF py_lt(float_of(line), min_val) THEN [returns |-> FALSE, value |-> <<>>]
    ELSE IF py_lt(max_val, float_of(line)) THEN [returns |-> FALSE, value |-> <<>>]
    ELSE [returns |-> TRUE, value |-> <<float_of(line)>>]

\* the lines typed at the subject prompt
NameLines ==
    { <<>>,
      << "h", "e", "l", "p" >>, << "L", "I", "S", "T" >>,
      << "u", "n", "d", "o" >>, << "U", "n", "d", "o" >>,
      << "t", "o", "a", "n" >>, << "T", "O", "A", "N" >>,
      << "v", "a", "n", " " >>, << "a", "n", "h" >>,
      << "k" >>, << KelvinSign >> }

DraftInit ==
    /\ num_subjects \in 1..MaxSubjects
    /\ draft = <<>>
    /\ draft_names = {}
    /\ subject_name = <<>>
    /\ draft_pc = "subject_name"
    /\ args = <<>>
    /\ made = <<>>
    /\ CalcIdle
    /\ StoreIdle
    /\ AppIdle

\* the subject prompt with an 'undo' that pops the entry and leaves its name
\* in subject_names
TypeName_undo_keeping_name(line) ==
    LET typed == input_text(line)
        titled == str_title(str_strip(typed))
    IN  /\ draft_pc = "subject_name"
        /\ made' = <<"subject_name", line>>
        /\ IF typed = <<>> \/ str_lower(typed) \in {Help, List}
           THEN UNCHANGED <<draft, draft_names, subject_name, draft_pc>>
           ELSE IF str_lower(typed) = Undo
           THEN /\ draft' = IF draft # <<>> THEN SubSeq(draft, 1, Len(draft) - 1) ELSE draft
                /\ UNCHANGED <<draft_names, subject_name, draft_pc>>
           ELSE IF titled \in draft_names
           THEN UNCHANGED <<draft, draft_names, subject_name, draft_pc>>
           ELSE /\ subject_name' = titled
                /\ draft_pc' = "score"
                /\ UNCHANGED <<draft, draft_names>>
        /\ UNCHANGED <<args, num_subjects, calc_vars, store_vars, app_vars>>

\* one line at the prompt for the subject: nothing, a command, a name that
\* is already in subject_names, or a new name, for which the score is asked
TypeName(line) ==
    LET typed == input_text(line)
        titled == str_title(str_strip(typed))
    IN  /\ draft_pc = "subject_name"
        /\ made' = <<"subject_name", line>>
        /\ IF typed = <<>> \/ str_lower(typed) \in {Help, List}
           THEN UNCHANGED <<draft, draft_names, subject_name, draft_pc>>
           ELSE IF str_lower(typed) = Undo
           THEN /\ draft' = IF draft # <<>> THEN SubSeq(draft, 1, Len(draft) - 1) ELSE draft
                /\ draft_names' = IF draft # <<>>
                                  THEN draft_names \ {draft[Len(draft)].name}
                                  ELSE draft_names
                /\ UNCHANGED <<subject_name, draft_pc>>
           ELSE IF titled \in draft_names
           THEN UNCHANGED <<draft, draft_names, subject_name, draft_pc>>
           ELSE /\ subject_name' = titled
                /\ draft_pc' = "score"
                /\ UNCHANGED <<draft, draft_names>>
        /\ UNCHANGED <<args, num_subjects, calc_vars, store_vars, app_vars>>

\* one line at the prompt for the score: input_number asks again, or returns
\* None (back to the subject prompt), or returns a number, from which the
\* entry is constructed and appended; a ValueError of the construction is
\* caught nowhere before run()
TypeScore(line) ==
    LET score == input_number(line, 0, 1000)
        s == SubjectInfo(subject_name, score.value[1], SUBJECT_WEIGHTS(subject_name),
                         SUBJECT_CATEGORIES(subject_name), None)
    IN  /\ draft_pc = "score"
        /\ made' = <<"score", line>>
        /\ IF ~score.returns
           THEN UNCHANGED <<draft, draft_names, subject_name, draft_pc>>
           ELSE IF score.value = <<>>
           THEN /\ draft_pc' = "subject_name"
                /\ subject_name' = <<>>
                /\ UNCHANGED <<draft, draft_names>>
           ELSE IF ~subject_valid(s)
           THEN /\ draft_pc' = "raised"
                /\ UNCHANGED <<draft, draft_names, subject_name>>
           ELSE /\ draft' = Append(draft, s)
                /\ draft_names' = draft_names \cup {subject_name}
                /\ subject_name' = <<>>
                /\ draft_pc' = IF Len(draft) + 1 < num_subjects
                               THEN "subject_name" ELSE "returned"
        /\ UNCHANGED <<args, num_subjects, calc_vars, store_vars, app_vars>>

NameLine == \E line \in NameLines : TypeName(line)
ScoreLine == \E line \in ScoreLines : TypeScore(line)

DraftNext == NameLine \/ ScoreLine

SpecDraft == DraftInit /\ [][DraftNext]_vars

---------------------------------------------------------------------------
(* Properties of draft entry (checked under SpecDraft) *)

\* C12: a validation error is always recovered at the input boundary: every
\* value that passes the checks of the input step is accepted by the
\* construction of the subject entry, a rejected value leaves the draft
\* unchanged and asks again, and no validation error leaves input_grades
\* towards the main loop of run().
C12_ValidationRecovered ==
    /\ draft_pc # "raised"
    /\ \A i \in DOMAIN draft : subject_valid(draft[i])

\* C13: at every point of draft entry no two entries of the draft have names
\* that are equal when compared without regard to case: adding such a name is
\* rejected, so no record with duplicate names reaches GPA computation.
C13_NoDuplicateNames ==
    \A i, j \in DOMAIN draft :
        i # j => str_lower(draft[i].name) # str_lower(draft[j].name)

---------------------------------------------------------------------------
(* Properties of the record lifecycle (checked under SpecApp) *)

\* C14: the lifecycle of a record is one-directional: once create_new_record
\* has built the record, no later operation of the application (display,
\* save, view history, export) adds, removes or changes an entry of it or
\* changes its record_id or created_at; the record the application holds
\* changes only by create_new_record building a new record or by the program
\* ending, and no step takes the application from the save prompt or the menu
\* back into the entry of that record.
C14_RecordImmutable ==
    [][ current_record # <<>> =>
            \/ current_record' = current_record
            \/ /\ op'[1] = "create_new_record"
               /\ app_pc = "menu"
               /\ current_record' # <<>>
            \/ /\ op'[1] = "open"
               /\ current_record' = <<>>
      ]_vars

\* C14 witness: the record was saved and, later, a record was exported, and
\* the application still holds the record as it was handed to save_record
C14_Witness ==
    /\ save_outcome = "saved"
    /\ op[1] = "export_menu"
    /\ exported # <<>>
    /\ current_record # <<>>
    /\ current_record[1].record_id \in DOMAIN saved
    /\ saved[current_record[1].record_id] = current_record[1]

---------------------------------------------------------------------------
(* SpecSaved: the record store when every save_record succeeds *)

SaveSucceeding == \E rec \in StoreRecords : SaveRecord(rec, 0)

SavedNext == SaveSucceeding \/ InfoLookup \/ RecordsLookup \/ LoadLookup

SpecSaved == Init /\ [][SavedNext]_vars

\* the record_ids whose last saved record is of the student
SavedFor(student_id) ==
    { rid \in DOMAIN saved : saved[rid].student.student_id = student_id }

\* C15: after any sequence of successful saves, get_student_records(student_id)
\* returns exactly one summary for each record saved for that student_id and
\* no summary of another student, ordered newest first by created_at.
C15_SummariesOfStudent ==
    \A student_id \in StudentIds :
        LET records == get_student_records(conn, student_id)
        IN  /\ Len(records) = Cardinality(SavedFor(student_id))
            /\ \A rid \in SavedFor(student_id) :
                  \E i \in DOMAIN records :
                     records[i] = summary_dict(summary_row(saved[rid]))
            /\ \A i \in DOMAIN records : records[i].student_id = student_id
            /\ \A i, j \in DOMAIN records :
                  i < j => records[i].created_at >= records[j].created_at

\* C15 witness: two records of one student were saved, the older first, and
\* the list of the student's summaries has the newer first
C15_Witness ==
    /\ op[1] = "get_student_records"
    /\ Len(result) = 2
    /\ conn.academic_records[1][1] = result[2].record_id
    /\ result[1].created_at > result[2].created_at
    /\ Cardinality(SavedFor(op[2])) = 2

\* C16: after any sequence of successful saves the store holds exactly one
\* student row per student_id, and its metadata is that of the student of the
\* most recently saved record with that student_id: every successful save
\* overwrites the metadata of its student and of no other student.
C16_StudentUpsert ==
    [][ (op'[1] = "save_record" /\ attempts' = attempts + 1 /\ result' = TRUE) =>
            LET rec == op'[2]
            IN  /\ \A student_id \in StudentIds :
                      Cardinality({ i \in DOMAIN conn'.students :
                                       conn'.students[i][1] = student_id }) <= 1
                /\ get_student_info(conn', rec.student.student_id) = <<rec.student>>
                /\ \A student_id \in StudentIds \ {rec.student.student_id} :
                      get_student_info(conn', student_id) = get_student_info(conn, student_id)
      ]_vars

\* C16 witness: a record of a student was saved under one name, then another
\* record of the same student_id under another name, and the one student row
\* has the later name
C16_Witness ==
    /\ op[1] = "save_record"
    /\ result = TRUE
    /\ op[2].student.full_name = "Binh"
    /\ \E rid \in DOMAIN saved :
          /\ rid # op[2].record_id
          /\ saved[rid].student.student_id = op[2].student.student_id
          /\ saved[rid].student.full_name = "An"
    /\ get_student_info(conn, op[2].student.student_id) = <<op[2].student>>

---------------------------------------------------------------------------
(* Properties of record identifiers (checked under SpecApp) *)

\* C17: any two records created by the application have distinct record_ids
\* (a newly built record has the id of no record built before it), and the
\* record_id of a record is assigned once at construction and never
\* recomputed: saving or reading the record leaves it the same.
C17_UniqueStableId ==
    [][ /\ op'[1] = "create_new_record" =>
              /\ \A rid \in DOMAIN saved : current_record'[1].record_id # rid
              /\ current_record # <<>> =>
                    current_record'[1].record_id # current_record[1].record_id
        /\ (current_record # <<>> /\ current_record' # <<>>
               /\ op'[1] # "create_new_record") =>
              current_record'[1].record_id = current_record[1].record_id
      ]_vars

---------------------------------------------------------------------------
(* Properties of the statistics (checked under SpecCalc) *)

\* every score of the record is 0
AllZero(rec) == \A i \in DOMAIN rec.subjects : rec.subjects[i].score = 0

\* C18: for a record with exactly one subject, variance = std_dev = 0 and
\* consistency_score = 100; for a record with more than one subject whose
\* scores are all 0 (mean 0), consistency_score = 100 and nothing is divided
\* by zero.
C18_DegenerateSpread ==
    calc_pc = "statistics" =>
        /\ Len(record.subjects) = 1 =>
              /\ out.variance.num = 0
              /\ out.std_dev = 0
              /\ out.consistency_score = 10000
        /\ (Len(record.subjects) > 1 /\ AllZero(record)) =>
              /\ out.consistency_score = 10000
              /\ out.std_dev = 0

\* C18 witness: the statistics of three subjects, each with score 0
C18_Witness ==
    /\ calc_pc = "statistics"
    /\ Len(record.subjects) = 3
    /\ AllZero(record)
    /\ out.count = 3
    /\ out.consistency_score = 10000

\* the scores of the record, in input order
ScoresOf(rec) == [i \in DOMAIN rec.subjects |-> rec.subjects[i].score]

\* the first position of the list that holds the value
FirstIndexOf(list, value) ==
    CHOOSE i \in DOMAIN list : list[i] = value /\ \A j \in 1..(i - 1) : list[j] # value

\* C19: for every non-empty subject list, min and max are the smallest and
\* the largest score, range = max - min, and min_subject / max_subject is the
\* name of the first entry in input order whose score equals min / max.
C19_ExtremesFirstOccurrence ==
    (calc_pc = "statistics" /\ record.subjects # <<>>) =>
        LET scores == ScoresOf(record)
        IN  /\ \E i \in DOMAIN scores : scores[i] = out.min
            /\ \A i \in DOMAIN scores : out.min <= scores[i]
            /\ \E i \in DOMAIN scores : scores[i] = out.max
            /\ \A i \in DOMAIN scores : scores[i] <= out.max
            /\ out.range = out.max - out.min
            /\ out.min_subject = record.subjects[FirstIndexOf(scores, out.min)].name
            /\ out.max_subject = record.subjects[FirstIndexOf(scores, out.max)].name

\* C19 witness: the first two of three entries share the largest score and
\* the first of them is the one named
C19_Witness ==
    /\ calc_pc = "statistics"
    /\ ScoresOf(record) = <<1000, 1000, 400>>
    /\ record.subjects[1].name # record.subjects[2].name
    /\ out.max_subject = record.subjects[1].name
    /\ out.min_subject = record.subjects[3].name

---------------------------------------------------------------------------
(* Properties of the insights (checked under SpecCalc) *)

\* the fixed order of the rules of generate_insights
RuleOrder == << "gpa", "consistency", "perfect", "weak", "excellence" >>
RulePosition(rule) == CHOOSE k \in DOMAIN RuleOrder : RuleOrder[k] = rule

\* the insights hold a remark of the rule
Fired(insights, rule) == \E i \in DOMAIN insights : insights[i].rule = rule

\* the remark of the rule among the insights
RemarkOf(insights, rule) ==
    insights[CHOOSE i \in DOMAIN insights : insights[i].rule = rule]

\* the tier of a GPA in hundredths
GpaTier(gpa) ==
    IF gpa >= 900 THEN "outstanding"
    ELSE IF gpa >= 800 THEN "good"
    ELSE IF gpa >= 650 THEN "decent"
    ELSE "needs_improvement"

\* C20: for every record with at least one subject, generate_insights returns
\* the fired remarks in the fixed order GPA tier, consistency, perfect score,
\* weak subject, excellence rate, each at most once: exactly one GPA-tier
\* remark comes first, decided on weighted_gpa; the consistency remark fires
\* for consistency_score >= 90 or < 70 and not in between; the perfect-score
\* remark fires iff max = 10 and names max_subject; the weak-subject remark
\* fires iff min < 5.0 and names min_subject; the excellence remark fires iff
\* excellence_rate >= 70; rules 2 to 5 fire independently of each other.
C20_InsightRules ==
    (calc_pc = "insights" /\ record.subjects # <<>>) =>
        LET insights == out.value
            stats == calculate_statistics(record.subjects)
        IN  /\ out.exception = None
            /\ Len(insights) >= 1
            /\ insights[1].rule = "gpa"
            /\ insights[1].remark = GpaTier(weighted_gpa(record))
            /\ \A i \in DOMAIN insights : insights[i].rule \in
                  { RuleOrder[k] : k \in DOMAIN RuleOrder }
            /\ \A i, j \in DOMAIN insights :
                  i < j => RulePosition(insights[i].rule) < RulePosition(insights[j].rule)
            /\ Fired(insights, "consistency") <=>
                  (stats.consistency_score >= 9000 \/ stats.consistency_score < 7000)
            /\ Fired(insights, "perfect") <=> stats.max = 1000
            /\ Fired(insights, "perfect") =>
                  RemarkOf(insights, "perfect").subject = stats.max_subject
            /\ Fired(insights, "weak") <=> stats.min < 500
            /\ Fired(insights, "weak") =>
                  RemarkOf(insights, "weak").subject = stats.min_subject
            /\ Fired(insights, "excellence") <=> stats.excellence_rate >= 7000

\* C20 witness: four rules fired on one record, in the fixed order
C20_Witness ==
    /\ calc_pc = "insights"
    /\ record.subjects # <<>>
    /\ out.exception = None
    /\ [i \in DOMAIN out.value |-> out.value[i].rule] =
          << "gpa", "consistency", "perfect", "weak" >>

---------------------------------------------------------------------------
(* SpecPredict: predict_performance applied to one record *)

\* longest subject list the projector specification draws (focus_areas keeps
\* three entries, so the cut needs four)
MaxEntries == 4

\* the scores and weights it draws
PredictScores == {0, 400, 800, 1000}
PredictWeights == {1, 2}

\* a record of the drawn scores and weights whose improvement does not lie
\* exactly between two hundredths
PredictInit ==
    /\ \E n \in 0..MaxEntries :
          \E sc \in [1..n -> PredictScores], w \in [1..n -> PredictWeights] :
             /\ ~improvement_between_hundredths(InputRecord(SubjectList(n, sc, w)))
             /\ record = InputRecord(SubjectList(n, sc, w))
    /\ calc_pc = "input"
    /\ out = <<>>
    /\ StoreIdle
    /\ AppIdle
    /\ DraftIdle

\* prediction = AdvancedAnalytics.predict_performance(record)
PredictPerformance ==
    /\ calc_pc = "input"
    /\ calc_pc' = "prediction"
    /\ out' = predict_performance(record).value
    /\ record' = predict_performance(record).record
    /\ UNCHANGED <<store_vars, app_vars, draft_vars>>

PredictNext == CalculateStatistics \/ PredictPerformance

SpecPredict == PredictInit /\ [][PredictNext]_vars

---------------------------------------------------------------------------
(* Properties of the projector (checked under SpecPredict) *)

\* k hundredths is a value nearest to (10 - gpa) * (consistency / 100) * 0.3
\* for the consistency of the record's statistics: with s = stdev / mean and
\* a = 3 * (1000 - gpa), a - 10*k - 5 <= a * s <= a - 10*k + 5
NearestImprovement(k, gpa, rec) ==
    LET rho == spread_squared(calculate_statistics(rec.subjects), rec.subjects)
        a   == 3 * (1000 - gpa)
        hi  == a - 10 * k + 5
        lo  == a - 10 * k - 5
    IN  /\ hi >= 0
        /\ mul_cmp(a * a, rho.num, hi * hi, rho.den) <= 0
        /\ lo <= 0 \/ mul_cmp(a * a, rho.num, lo * lo, rho.den) >= 0

\* the improvement of the formula is not negative: the GPA is 10 or the
\* consistency is at least 0, that is stdev / mean <= 1
ImprovementNonNegative(rec) ==
    LET rho == spread_squared(calculate_statistics(rec.subjects), rec.subjects)
    IN  weighted_gpa(rec) = 1000 \/ rho.num <= rho.den

\* C21: predict_performance computes improvement = (10 - current_gpa) *
\* (consistency_score / 100) * 0.3 with current_gpa = weighted_gpa and
\* predicted_next = min(10, current_gpa + improvement); predicted_next never
\* exceeds 10.0, and whenever the improvement is non-negative it lies in
\* [current_gpa, 10.0].
C21_PredictedWithinBounds ==
    calc_pc = "prediction" =>
        /\ out.current_gpa = weighted_gpa(record)
        /\ NearestImprovement(out.improvement_potential, out.current_gpa, record)
        /\ NearestImprovement(out.predicted_next - out.current_gpa, out.current_gpa, record)
        /\ out.predicted_next <= 1000
        /\ ImprovementNonNegative(record) =>
              (out.current_gpa <= out.predicted_next /\ out.predicted_next <= 1000)

\* C21 witness: a prediction with a positive improvement that ends strictly
\* between the current GPA and 10
C21_Witness ==
    /\ calc_pc = "prediction"
    /\ ImprovementNonNegative(record)
    /\ out.improvement_potential > 0
    /\ out.current_gpa < out.predicted_next
    /\ out.predicted_next < 1000

\* the position in a list of subjects of the entry called name (names are
\* unique within a list)
IndexOfName(subjects, name) == CHOOSE i \in DOMAIN subjects : subjects[i].name = name

\* entry i comes before entry j in ascending order of score, entries of
\* equal score in their input order
RanksBefore(subjects, i, j) ==
    \/ subjects[i].score < subjects[j].score
    \/ subjects[i].score = subjects[j].score /\ i < j

\* C22: focus_areas has length min(3, number of subjects) and lists the names
\* of the lowest-scoring subjects in ascending score order, entries of equal
\* score keeping their input order (with a tie at the cut-off the earlier
\* entry is the one included); the record's own subject list keeps its order.
C22_FocusAreas ==
    calc_pc = "prediction" =>
        LET subjects == record.subjects
            n        == Len(subjects)
            focus    == out.focus_areas
            at(j)    == IndexOfName(subjects, focus[j])
        IN  /\ Len(focus) = (IF n < 3 THEN n ELSE 3)
            /\ \A j \in DOMAIN focus : \E i \in DOMAIN subjects : subjects[i].name = focus[j]
            /\ \A j, k \in DOMAIN focus : j < k => RanksBefore(subjects, at(j), at(k))
            /\ \A j \in DOMAIN focus : \A i \in DOMAIN subjects :
                  (\A k \in DOMAIN focus : at(k) # i) => RanksBefore(subjects, at(j), i)
            /\ [i \in DOMAIN subjects |-> subjects[i].name] = SubSeq(InputNames(n), 1, n)

\* C22 witness: four subjects out of score order, the one left out of
\* focus_areas scoring the same as the last one listed
C22_Witness ==
    /\ calc_pc = "prediction"
    /\ Len(record.subjects) = 4
    /\ record.subjects[1].score > record.subjects[2].score
    /\ Len(out.focus_areas) = 3
    /\ \E i \in DOMAIN record.subjects :
          /\ \A k \in DOMAIN out.focus_areas : out.focus_areas[k] # record.subjects[i].name
          /\ record.subjects[i].score =
                record.subjects[IndexOfName(record.subjects, out.focus_areas[3])].score

\* the consistency of the record's statistics (0 where there are none) is
\* above a whole percent: stdev / mean < (100 - percent) / 100
ConsistencyOver(rec, percent) ==
    LET rho == spread_squared(calculate_statistics(rec.subjects), rec.subjects)
    IN  mul_cmp(10000, rho.num, (100 - percent) * (100 - percent), rho.den) < 0

\* C23: confidence is High iff consistency_score > 80, Medium iff
\* 60 < consistency_score <= 80, Low otherwise; recommendation is Maintain iff
\* current_gpa >= 8.0, Improve otherwise; an empty record gives, without
\* error, current_gpa = predicted_next = improvement_potential = 0, confidence
\* Low, recommendation Improve and empty focus_areas.
C23_Labels ==
    calc_pc = "prediction" =>
        /\ out.confidence = "Cao" <=> ConsistencyOver(record, 80)
        /\ out.confidence = "Trung binh" <=>
              (ConsistencyOver(record, 60) /\ ~ConsistencyOver(record, 80))
        /\ out.confidence = "Thap" <=> ~ConsistencyOver(record, 60)
        /\ out.recommendation = "Duy tri" <=> out.current_gpa >= 800
        /\ out.recommendation = "Cai thien" <=> out.current_gpa < 800
        /\ record.subjects = <<>> =>
              out = [ current_gpa |-> 0, predicted_next |-> 0, improvement_potential |-> 0,
                      confidence |-> "Thap", recommendation |-> "Cai thien",
                      focus_areas |-> <<>> ]

\* C23 witness: a prediction of Medium confidence with the recommendation to
\* maintain
C23_Witness ==
    /\ calc_pc = "prediction"
    /\ out.confidence = "Trung binh"
    /\ out.recommendation = "Duy tri"

\* C29: for every non-empty list of valid subject entries consistency_score
\* lies in [0, 100], and therefore improvement_potential is never negative
\* and predicted_next is never below current_gpa.
C29_ConsistencyInRange ==
    record.subjects # <<>> =>
        /\ calc_pc = "statistics" =>
              (0 <= out.consistency_score /\ out.consistency_score <= 10000)
        /\ calc_pc = "prediction" =>
              (out.improvement_potential >= 0 /\ out.predicted_next >= out.current_gpa)

---------------------------------------------------------------------------
(* SpecPure: the analytics called again and again on one record, as        *)
(* display_report and the exporters do on the current record               *)

\* most analytics calls in one behaviour
MaxCalls == 2

\* the scores it draws (every weight is 1)
PureScores == {0, 500, 1000}

\* one call of an analytics function and what it returned
Call(fn, value) == [fn |-> fn, value |-> value]

PureInit ==
    /\ \E n \in 0..MaxSubjects :
          \E sc \in [1..n -> PureScores] :
             /\ ~improvement_between_hundredths(InputRecord(SubjectList(n, sc, [i \in 1..n |-> 1])))
             /\ record = InputRecord(SubjectList(n, sc, [i \in 1..n |-> 1]))
    /\ calc_pc = "input"
    /\ out = <<>>
    /\ StoreIdle
    /\ AppIdle
    /\ DraftIdle

\* AdvancedAnalytics.calculate_statistics(record.subjects): reads the list
CallStatistics ==
    /\ Len(out) < MaxCalls
    /\ calc_pc' = "statistics"
    /\ out' = Append(out, Call("calculate_statistics", calculate_statistics(record.subjects)))
    /\ UNCHANGED <<record, store_vars, app_vars, draft_vars>>

\* AdvancedAnalytics.generate_insights(stats, record) on the stats of the record
CallInsights ==
    /\ Len(out) < MaxCalls
    /\ calc_pc' = "insights"
    /\ out' = Append(out, Call("generate_insights",
                               generate_insights(calculate_statistics(record.subjects), record)))
    /\ UNCHANGED <<record, store_vars, app_vars, draft_vars>>

\* AdvancedAnalytics.predict_performance(record)
CallPrediction ==
    /\ Len(out) < MaxCalls
    /\ calc_pc' = "prediction"
    /\ out' = Append(out, Call("predict_performance", predict_performance(record).value))
    /\ record' = predict_performance(record).record
    /\ UNCHANGED <<store_vars, app_vars, draft_vars>>

PureNext == CallStatistics \/ CallInsights \/ CallPrediction

SpecPure == PureInit /\ [][PureNext]_vars

\* C24: calculate_statistics, generate_insights and predict_performance are
\* pure: each leaves the record, the content and order of its subject list,
\* and the record store unchanged, and calling one of them twice on the same
\* record returns equal results.
C24_AnalyticsPure ==
    [][ /\ record' = record
        /\ conn' = conn
        /\ disk' = disk
        /\ \A i \in DOMAIN out' : \A j \in DOMAIN out' :
              out'[i].fn = out'[j].fn => out'[i].value = out'[j].value ]_vars

\* C24 witness: predict_performance called twice on a record whose subjects
\* are not in ascending order of score
C24_Witness ==
    /\ Len(out) = 2
    /\ out[1].fn = "predict_performance"
    /\ out[2].fn = "predict_performance"
    /\ Len(record.subjects) >= 2
    /\ record.subjects[1].score > record.subjects[2].score

---------------------------------------------------------------------------
(* SpecEntry: create_new_record from the prompt for the number of subjects *)
(* to the construction of the record, input_grades in between              *)

\* the lines typed at the prompt for the number of subjects
CountLines == { "abc", "nan", "inf", "-1", "0", "1", "2.5", "3", "21", CtrlC }

\* int(num) of a float in hundredths: the fraction is cut off
int_of(num) == IF num >= 0 THEN num \div 100 ELSE 0 - ((0 - num) \div 100)

\* create_new_record after input_student_info: the prompt for the count waits
EntryInit ==
    /\ num_subjects = 0
    /\ draft = <<>>
    /\ draft_names = {}
    /\ subject_name = <<>>
    /\ draft_pc = "num_subjects"
    /\ args = <<>>
    /\ made = <<>>
    /\ CalcIdle
    /\ StoreIdle
    /\ AppIdle

\* one line at the prompt "number of subjects (1-20)": input_number asks
\* again, or returns None and create_new_record returns, or returns a float;
\* int(nan) raises ValueError, any other float is cut to an integer and
\* input_grades starts with an empty list
TypeCount(line) ==
    LET count == input_number(line, 100, 2000)
    IN  /\ draft_pc = "num_subjects"
        /\ made' = <<"num_subjects", line>>
        /\ IF ~count.returns
           THEN UNCHANGED <<num_subjects, draft_pc>>
           ELSE IF count.value = <<>> \/ count.value[1] = 0
           THEN /\ draft_pc' = "cancelled"
                /\ UNCHANGED num_subjects
           ELSE IF count.value[1] = NaN
           THEN /\ draft_pc' = "raised"
                /\ UNCHANGED num_subjects
           ELSE /\ num_subjects' = int_of(count.value[1])
                /\ draft_pc' = IF 0 < int_of(count.value[1]) THEN "subject_name" ELSE "returned"
        /\ UNCHANGED <<args, draft, draft_names, subject_name, calc_vars, store_vars, app_vars>>

\* subjects = self.input_grades(num_subjects) has returned: "if not subjects:
\* return", else self.current_record = AcademicRecord(..., subjects=subjects)
BuildRecord ==
    /\ draft_pc = "returned"
    /\ made' = <<"record", <<>>>>
    /\ IF draft = <<>>
       THEN /\ draft_pc' = "cancelled"
            /\ UNCHANGED current_record
       ELSE /\ draft_pc' = "built"
            /\ current_record' = << AcademicRecord(InputStudent("HS000001", "An"), "Hoc ky I",
                                                   "Giua ky", draft, 1, RecordIdAt(1)) >>
    /\ UNCHANGED <<args, draft, draft_names, num_subjects, subject_name,
                   app_pc, save_outcome, exported, calc_vars, store_vars>>

CountLine == \E line \in CountLines : TypeCount(line)

EntryNext == CountLine \/ NameLine \/ ScoreLine \/ BuildRecord

SpecEntry == EntryInit /\ [][EntryNext]_vars

---------------------------------------------------------------------------
(* Properties of the draft (checked under SpecEntry) *)

\* C25: during draft entry the number of collected entries never exceeds the
\* requested subject count, which itself is between 1 and 20; the draft is
\* handed off for record construction only when it holds exactly the
\* requested number of entries, never fewer and never an empty list.
C25_DraftBounded ==
    /\ Len(draft) <= num_subjects
    /\ draft_pc \in {"subject_name", "score"} => num_subjects \in 1..20
    /\ current_record # <<>> =>
          /\ current_record[1].subjects = draft
          /\ Len(draft) = num_subjects
          /\ num_subjects \in 1..20
          /\ draft # <<>>

\* C25 witness: a record built from a draft of three entries, after the count
\* was typed as 3
C25_Witness ==
    /\ draft_pc = "built"
    /\ num_subjects = 3
    /\ Len(current_record[1].subjects) = 3

---------------------------------------------------------------------------
(* Properties of the draft commands (checked under SpecDraft) *)

\* the names of the entries of a draft
DraftNames(subjects) == { subjects[i].name : i \in DOMAIN subjects }

\* the line last typed was typed at the subject prompt and reads as command
Typed(last, command) ==
    /\ last # <<>>
    /\ last[1] = "subject_name"
    /\ str_lower(str_strip(last[2])) = command

\* C26: 'undo' removes exactly the most recently added entry and makes its
\* name available for entry again; 'undo' on an empty draft, 'list' and
\* 'help' leave the draft unchanged; after any sequence of these commands and
\* additions the set of names used for the duplicate check equals the set of
\* names of the entries currently in the draft.
C26_DraftCommands ==
    /\ [](draft_names = DraftNames(draft))
    /\ [][ /\ (Typed(made', Undo) /\ draft # <<>>) =>
                 /\ draft' = SubSeq(draft, 1, Len(draft) - 1)
                 /\ draft[Len(draft)].name \notin draft_names'
                 /\ draft_pc' = "subject_name"
           /\ (Typed(made', Undo) /\ draft = <<>>) =>
                 (draft' = draft /\ draft_names' = draft_names)
           /\ (Typed(made', List) \/ Typed(made', Help)) =>
                 (draft' = draft /\ draft_names' = draft_names) ]_vars

\* C26 witness: 'undo' has just taken the second entry off a draft, of which
\* the first is left
C26_Witness ==
    /\ Typed(made, Undo)
    /\ Len(draft) = 1
    /\ draft_names = { draft[1].name }
    /\ draft_pc = "subject_name"

---------------------------------------------------------------------------
(* Properties of the stored rows (C27 under SpecSaved, C28 under Spec) *)

\* the summary row agrees with the subject rows of its record_id:
\* total_subjects counts them and the GPAs and the grade label are those
\* computed from them
SummaryAgrees(tables, row) ==
    LET cols == selected_subjects(tables, row[1])
        rec  == [subjects |-> [i \in DOMAIN cols |->
                                  SubjectInfo(cols[i][1], cols[i][2], cols[i][3],
                                              cols[i][4], cols[i][5])]]
    IN  /\ row[8] = Len(rec.subjects)
        /\ row[5] = simple_gpa(rec)
        /\ row[6] = weighted_gpa(rec)
        /\ row[7] = record_grade_level(rec).label

\* C27: after any sequence of successful save_record calls, including saving
\* the same record more than once, the summary row of each record_id is
\* consistent with the stored subject rows (total_subjects is their number,
\* the stored GPAs and grade label are those recomputed from them), and
\* saving a record twice leaves the store as saving it once.
C27_SummaryMatchesSubjects ==
    /\ [](\A row \in Rows(conn.academic_records) : SummaryAgrees(conn, row))
    /\ [][ (/\ op'[1] = "save_record"
            /\ attempts' = attempts + 1
            /\ op'[2].record_id \in DOMAIN saved
            /\ saved[op'[2].record_id] = op'[2]
            /\ student_row(op'[2]) \in Rows(conn.students)) =>
               /\ Rows(conn'.students) = Rows(conn.students)
               /\ Rows(conn'.academic_records) = Rows(conn.academic_records)
               /\ Len(conn'.subjects) = Len(conn.subjects) ]_vars

\* C28: referential integrity: in every state reachable by any sequence of
\* save attempts, successful or failed, every subject row and every summary
\* row visible to a lookup references a student_id that has a student row,
\* and the record_id of every visible subject row has a summary row.
C28_ReferentialIntegrity ==
    /\ \A row \in Rows(conn.subjects) :
          \E student \in Rows(conn.students) : student[1] = row[2]
    /\ \A row \in Rows(conn.academic_records) :
          \E student \in Rows(conn.students) : student[1] = row[2]
    /\ \A row \in Rows(conn.subjects) :
          \E summary \in Rows(conn.academic_records) : summary[1] = row[3]

---------------------------------------------------------------------------
(* run() from its start to its end, and the next run (SpecRun) *)

\* how run() can end: the menu returns None (choice 0, or Ctrl-C at the menu
\* prompt, which input_number turns into None), KeyboardInterrupt reaches
\* run() (Ctrl-C at the bare input() of confirm), or an exception reaches it
\* (the input ends at the prompt the controller waits at: input() raises
\* EOFError, which nothing below run() catches)
RunEndings == {"exit", "interrupt", "error"}

\* run() with db.close() after the loop instead of in the finally block
RunEnds_closing_after_loop(how) ==
    /\ how = "exit" => app_pc = "menu"
    /\ how = "interrupt" => app_pc = "confirm_save"
    /\ how = "error" => app_pc \in {"menu", "confirm_save", "exited"}
    /\ app_pc' = "ended"
    /\ op' = IF how = "exit" THEN <<"close", how>> ELSE op
    /\ conn' = IF how = "exit" THEN disk ELSE conn
    /\ result' = IF how = "exit" THEN <<>> ELSE result
    /\ UNCHANGED <<disk, saved, attempts, current_record, save_outcome,
                   exported, calc_vars, draft_vars>>

\* run() ends: whichever way the try block is left, the finally block calls
\* db.close(), which closes the connection; what the connection had written
\* and not committed is dropped, the file keeps what was committed
RunEnds(how) ==
    /\ how = "exit" => app_pc = "menu"
    /\ how = "interrupt" => app_pc = "confirm_save"
    /\ how = "error" => app_pc \in {"menu", "confirm_save", "exited"}
    /\ app_pc' = "ended"
    /\ op' = <<"close", how>>
    /\ conn' = disk
    /\ result' = <<>>
    /\ UNCHANGED <<disk, saved, attempts, current_record, save_outcome,
                   exported, calc_vars, draft_vars>>

\* the program is started again: GradeManagementSystem() opens the same file
\* and holds no record
RunAgain ==
    /\ app_pc = "ended"
    /\ conn' = disk
    /\ current_record' = <<>>
    /\ app_pc' = "menu"
    /\ save_outcome' = ""
    /\ exported' = <<>>
    /\ op' = <<"open">>
    /\ result' = <<>>
    /\ UNCHANGED <<disk, saved, attempts, calc_vars, draft_vars>>

End == \E how \in RunEndings : RunEnds(how)

RunNext == Create \/ Confirm \/ View \/ Export \/ End \/ RunAgain

SpecRun == AppInit /\ [][RunNext]_vars

\* the steps of the menu loop that are no confirmed save
ReadingStep ==
    op'[1] \in {"view_records", "export_menu", "create_new_record", "confirm"}

\* C30: viewing the history, exporting a record, building a record and
\* displaying its report, and declining the save prompt leave the store as it
\* was, both what the connection sees and what the file holds; the file
\* changes only in a save_record that follows a "yes" at the save prompt, and
\* what the connection sees changes only there or when close() drops what was
\* never committed; and whenever run() has ended, by the menu's exit, by an
\* interrupt or by an error, the last thing done to the store is close().
C30_OnlyConfirmedSaveWrites ==
    /\ [](app_pc = "ended" => op[1] = "close" /\ conn = disk)
    /\ [][ /\ ReadingStep => conn' = conn /\ disk' = disk
           /\ disk' # disk => op'[1] = "save_record" /\ app_pc = "confirm_save"
           /\ conn' # conn =>
                \/ op'[1] = "save_record" /\ app_pc = "confirm_save"
                \/ op'[1] = "close" /\ conn' = disk
      ]_vars

\* C30 witness: a record is in the file, the save of a later record was
\* declined, and run() then ended by the menu's exit with the store closed
\* and the file still holding that one record
C30_Witness ==
    /\ app_pc = "ended"
    /\ op = <<"close", "exit">>
    /\ save_outcome = "declined"
    /\ Len(disk.academic_records) = 1
    /\ attempts = MaxRecords

=============================================================================
